---- MODULE Spec2Model ----
(***************************************************************************)
(* Model of the rate limiter (utils/rateLimiter.ts), the account store     *)
(* (db/auth.ts), the authentication context (context/AuthContext.tsx),     *)
(* record hashing (utils/hashing.ts), the record store (db/database.ts)    *)
(* and the screens that write records (LogTodayScreen, DayDetailScreen).   *)
(*                                                                         *)
(* Strings are sequences of one-character strings, so that toLowerCase,    *)
(* trim and encodeKey are computed character by character.  Time is        *)
(* counted in minutes: the code's `n * 60 * 1000` milliseconds is n here.   *)
(***************************************************************************)
EXTENDS Integers, Sequences, FiniteSets, TLC

VARIABLES
  now,      \* Date.now(), in minutes
  store,    \* SecureStore: storage key -> RateLimitEntry (JSON of the entry)
  users,    \* table users of proof_auth.db: e-mail -> row
  user,     \* AuthProvider's state `user` (the session)
  classes,  \* the operation classes the direct callers of the limiter use
  uuids,    \* how many ids Crypto.randomUUID has handed out
  today,    \* the calendar day the device's clock shows
  proofDb,  \* proof.db: the tables records and photos
  screen,   \* the mounted screen with its route parameters and component state
  calls,    \* the asynchronous calls in flight: where each is, what it read
  last      \* the most recent call: its arguments, what it read, what it returned

vars == <<now, store, users, user, classes, uuids, today, proofDb, screen, calls, last>>

\* what only the record screens touch
recordVars == <<today, proofDb, screen>>

\* what the rate limiter never touches
authVars == <<users, user, uuids>>

-----------------------------------------------------------------------------
(* Bounds of the model *)

MaxTime == 65
TickStep == 5
MaxAuthTime == 20
AuthTickStep == 10
MaxAccounts == 1

-----------------------------------------------------------------------------
(* Strings *)

\* String.prototype.toLowerCase on one character
LowerChar(c) ==
  CASE c = "M" -> "m"
    [] c = "U" -> "u"
    [] c = "A" -> "a"
    [] c = "B" -> "b"
    [] c = "C" -> "c"
    [] c = "D" -> "d"
    [] c = "E" -> "e"
    [] c = "F" -> "f"
    [] OTHER -> c

ToLowerCase(s) == [i \in 1..Len(s) |-> LowerChar(s[i])]

RECURSIVE TrimStart(_)
TrimStart(s) ==
  IF s # <<>> /\ Head(s) = " " THEN TrimStart(Tail(s)) ELSE s

RECURSIVE TrimEnd(_)
TrimEnd(s) ==
  IF s # <<>> /\ s[Len(s)] = " " THEN TrimEnd(SubSeq(s, 1, Len(s) - 1)) ELSE s

Trim(s) == TrimEnd(TrimStart(s))

\* encodeKey on one character: the five named replacements, then every
\* character outside [a-zA-Z0-9_-] becomes "_"
EncodeChar(c) ==
  CASE c = "@" -> <<"_", "a", "t", "_">>
    [] c = "." -> <<"_", "d", "o", "t", "_">>
    [] c = "+" -> <<"_", "p", "l", "u", "s", "_">>
    [] c = "/" -> <<"_", "s", "l", "a", "s", "h", "_">>
    [] c = "=" -> <<"_", "e", "q", "u", "a", "l", "s", "_">>
    [] c = " " -> <<"_">>
    [] OTHER -> <<c>>

RECURSIVE encodeKey(_)
encodeKey(s) ==
  IF s = <<>> THEN <<>> ELSE EncodeChar(Head(s)) \o encodeKey(Tail(s))

-----------------------------------------------------------------------------
(* Rate limiter configuration *)

RATE_LIMIT_CONFIG ==
  [AUTH             |-> [maxAttempts |-> 5, windowMs |-> 15, lockoutDurationMs |-> 30],
   PIN_VERIFICATION |-> [maxAttempts |-> 3, windowMs |-> 10, lockoutDurationMs |-> 15],
   EMAIL            |-> [maxAttempts |-> 3, windowMs |-> 60, lockoutDurationMs |-> 60]]

Types == DOMAIN RATE_LIMIT_CONFIG

\* the exempt address, written with the characters of the model's alphabet
RATE_LIMIT_WHITELIST == { <<"m">> }

\* `${type}_${identifier}`; the type name is one token, it never contains
\* a character that encodeKey rewrites
RateLimitKey(identifier, type) == <<type, "_">> \o identifier

StorageKey(key) == <<"rate_limit_">> \o encodeKey(key)

-----------------------------------------------------------------------------
(* Rate limiter *)

HasEntry(st, key) == StorageKey(key) \in DOMAIN st

\* SecureStore.getItemAsync: the stored value, null when there is none, or it throws
getItemAsync(st, k, ok) ==
  IF ~ok THEN [threw |-> TRUE]
  ELSE IF k \in DOMAIN st THEN [threw |-> FALSE, found |-> TRUE, entry |-> st[k]]
  ELSE [threw |-> FALSE, found |-> FALSE]

\* SecureStore.setItemAsync: stores the value, or throws and stores nothing
setItemAsync(st, k, value, ok) ==
  IF ~ok THEN [threw |-> TRUE, store |-> st]
  ELSE [threw |-> FALSE,
        store |-> [x \in DOMAIN st \cup {k} |-> IF x = k THEN value ELSE st[x]]]

\* SecureStore.deleteItemAsync: removes the value, or throws and removes nothing
deleteItemAsync(st, k, ok) ==
  IF ~ok THEN [threw |-> TRUE, store |-> st]
  ELSE [threw |-> FALSE, store |-> [x \in DOMAIN st \ {k} |-> st[x]]]

\* the read without its try/catch
getRateLimitEntry_NoCatch(st, key, readOk) ==
  getItemAsync(st, StorageKey(key), readOk)

\* getRateLimitEntry: the catch block logs the error and returns null
getRateLimitEntry(st, key, readOk) ==
  LET r == getItemAsync(st, StorageKey(key), readOk) IN
  IF r.threw THEN [threw |-> FALSE, found |-> FALSE] ELSE r

\* setRateLimitEntry: the catch block logs the error
setRateLimitEntry(st, key, entry, writeOk) ==
  LET r == setItemAsync(st, StorageKey(key), entry, writeOk) IN
  IF r.threw THEN [threw |-> FALSE, store |-> r.store] ELSE r

\* clearRateLimitEntry: the catch block logs the error
clearRateLimitEntry(st, key, writeOk) ==
  LET r == deleteItemAsync(st, StorageKey(key), writeOk) IN
  IF r.threw THEN [threw |-> FALSE, store |-> r.store] ELSE r

IsLocked(entry) == "lockedUntil" \in DOMAIN entry

FreshEntry(t) == [attempts |-> 1, firstAttempt |-> t]

\* the entry written at the maximum without lockedUntil
WithLock_AttemptsOnly(entry, newAttempts, lockedUntil) ==
  [entry EXCEPT !.attempts = newAttempts]

\* { ...entry, attempts: newAttempts, lockedUntil }
WithLock(entry, newAttempts, lockedUntil) ==
  [f \in DOMAIN entry \cup {"lockedUntil"} |->
     CASE f = "attempts" -> newAttempts
       [] f = "lockedUntil" -> lockedUntil
       [] OTHER -> entry[f]]

Max(a, b) == IF a >= b THEN a ELSE b

\* the identifier compared as given, neither lower-cased nor trimmed
IsWhitelisted_AsGiven(identifier) == identifier \in RATE_LIMIT_WHITELIST

IsWhitelisted(identifier) == Trim(ToLowerCase(identifier)) \in RATE_LIMIT_WHITELIST

\* a lockout that no later time ends
LockedOut_Forever(entry, t) == IsLocked(entry)

\* the comparison with lockedUntil turned around
LockedOut_Reversed(entry, t) == IsLocked(entry) /\ t > entry.lockedUntil

\* entry.lockedUntil && now < entry.lockedUntil
LockedOut(entry, t) == IsLocked(entry) /\ t < entry.lockedUntil

\* entry.lockedUntil && now >= entry.lockedUntil
LockoutExpired(entry, t) == IsLocked(entry) /\ t >= entry.lockedUntil

\* the window taken to end the moment windowMs has passed
WindowExpired_AtWindowMs(entry, t, config) == t - entry.firstAttempt >= config.windowMs

\* now - entry.firstAttempt > config.windowMs
WindowExpired(entry, t, config) == t - entry.firstAttempt > config.windowMs

\* the lockout set one attempt later
MaxAttemptsReached_After(newAttempts, config) == newAttempts > config.maxAttempts

\* newAttempts >= config.maxAttempts
MaxAttemptsReached(newAttempts, config) == newAttempts >= config.maxAttempts

\* an awaited write inside checkRateLimit followed by `return result`: a
\* write that throws ends the call with that exception
Return(w, result) ==
  IF w.threw THEN [threw |-> TRUE, store |-> w.store]
  ELSE [threw |-> FALSE, result |-> result, store |-> w.store]

\* checkRateLimit(identifier, type) called at time t on store st; the value is
\* the returned object (or that the call threw) and the store the call leaves
checkRateLimit(st, identifier, type, t, readOk, writeOk) ==
  LET config == RATE_LIMIT_CONFIG[type]
      key == RateLimitKey(identifier, type)
      got == getRateLimitEntry(st, key, readOk)
      entry == got.entry
      newAttempts == entry.attempts + 1
      remainingAttempts == Max(0, config.maxAttempts - newAttempts)
      lockedUntil == t + config.lockoutDurationMs
      fresh == Return(setRateLimitEntry(st, key, FreshEntry(t), writeOk),
                      [allowed |-> TRUE, remainingAttempts |-> config.maxAttempts - 1])
  IN
  IF IsWhitelisted(identifier)
    THEN [threw |-> FALSE, store |-> st,
          result |-> [allowed |-> TRUE, remainingAttempts |-> 999]]
  ELSE IF got.threw
    THEN [threw |-> TRUE, store |-> st]
  ELSE IF ~got.found
    THEN fresh
  ELSE IF LockedOut(entry, t)
    THEN [threw |-> FALSE, store |-> st,
          result |-> [allowed |-> FALSE, remainingAttempts |-> 0,
                      lockedUntil |-> entry.lockedUntil]]
  ELSE IF LockoutExpired(entry, t)
    THEN fresh
  ELSE IF WindowExpired(entry, t, config)
    THEN fresh
  ELSE IF MaxAttemptsReached(newAttempts, config)
    THEN Return(setRateLimitEntry(st, key,
                  WithLock(entry, newAttempts, lockedUntil), writeOk),
                [allowed |-> FALSE, remainingAttempts |-> 0,
                 lockedUntil |-> lockedUntil])
  ELSE Return(setRateLimitEntry(st, key,
                [entry EXCEPT !.attempts = newAttempts], writeOk),
              [allowed |-> TRUE, remainingAttempts |-> remainingAttempts])

\* recordRateLimitAttempt: "just call checkRateLimit to record the attempt"
recordRateLimitAttempt(st, identifier, type, t, readOk, writeOk) ==
  LET r == checkRateLimit(st, identifier, type, t, readOk, writeOk) IN
  [threw |-> r.threw, store |-> r.store]

\* the reset made with the default class AUTH whatever class was asked for
resetRateLimit_DefaultType(st, identifier, type, writeOk) ==
  clearRateLimitEntry(st, RateLimitKey(identifier, "AUTH"), writeOk)

resetRateLimit(st, identifier, type, writeOk) ==
  clearRateLimitEntry(st, RateLimitKey(identifier, type), writeOk)

-----------------------------------------------------------------------------
(* Account store: db/auth.ts *)

\* SQL NULL in a TEXT column; a NULL in an INTEGER column is written 0, which
\* JavaScript's truthiness tests treat alike
NULL == <<>>

\* hashPassword: SHA-256 of the password, taken as collision-free
hashPassword(password) == <<"sha256">> \o password

verifyPassword(password, storedHash) == hashPassword(password) = storedHash

\* SELECT * FROM users WHERE email = lower(trim(email))
getUserByEmail(db, email) ==
  LET k == Trim(ToLowerCase(email)) IN
  IF k \in DOMAIN db THEN [found |-> TRUE, row |-> db[k]] ELSE [found |-> FALSE]

\* UPDATE users SET ... WHERE email = lower(trim(email)): no row, no change
UpdateUser(db, email, row) ==
  LET k == Trim(ToLowerCase(email)) IN
  IF k \in DOMAIN db THEN [db EXCEPT ![k] = row] ELSE db

createUser(db, email, password, emailVerificationPin, t, id) ==
  LET k == Trim(ToLowerCase(email))
      row == [id |-> id,
              email |-> k,
              passwordHash |-> hashPassword(password),
              emailVerified |-> 0,
              emailVerificationToken |->
                IF emailVerificationPin # <<>> THEN emailVerificationPin ELSE NULL,
              emailVerificationTokenExpiry |->
                IF emailVerificationPin # <<>> THEN t + 10 ELSE 0,
              passwordResetToken |-> NULL,
              passwordResetTokenExpiry |-> 0]
  IN [x \in DOMAIN db \cup {k} |-> IF x = k THEN row ELSE db[x]]

\* changeUserPassword: whether it threw, and the table it leaves
changeUserPassword(db, email, currentPassword, newPassword) ==
  LET u == getUserByEmail(db, email) IN
  IF ~u.found THEN [threw |-> TRUE, db |-> db]
  ELSE IF ~verifyPassword(currentPassword, u.row.passwordHash)
    THEN [threw |-> TRUE, db |-> db]
  ELSE [threw |-> FALSE,
        db |-> UpdateUser(db, email, [u.row EXCEPT !.passwordHash = hashPassword(newPassword)])]

deleteUser(db, email) ==
  [x \in DOMAIN db \ {Trim(ToLowerCase(email))} |-> db[x]]

\* an expiry that is never looked at
TokenExpired_Never(expiry, t) == FALSE

\* expiry && expiry < Date.now()
TokenExpired(expiry, t) == expiry # 0 /\ expiry < t

\* SET emailVerified = 1, emailVerificationToken = NULL,
\*     emailVerificationTokenExpiry = NULL
MarkVerified(row) ==
  [row EXCEPT !.emailVerified = 1,
              !.emailVerificationToken = NULL,
              !.emailVerificationTokenExpiry = 0]

\* the verified test dropped from the first return of verifyEmail
AlreadyVerified_Ignored(row) == FALSE

\* user.emailVerified, read as a truth value
AlreadyVerified(row) == row.emailVerified # 0

\* verifyEmail: the value returned and the table the call leaves
verifyEmail(db, email, token, t) ==
  LET u == getUserByEmail(db, email) IN
  IF ~u.found \/ u.row.emailVerificationToken = NULL \/ AlreadyVerified(u.row)
    THEN [value |-> FALSE, db |-> db]
  ELSE IF u.row.emailVerificationToken # token
    THEN [value |-> FALSE, db |-> db]
  ELSE IF TokenExpired(u.row.emailVerificationTokenExpiry, t)
    THEN [value |-> FALSE, db |-> db]
  ELSE [value |-> TRUE, db |-> UpdateUser(db, email, MarkVerified(u.row))]

\* the UPDATE that sets the token and leaves the expiry column alone
setPasswordResetToken_ExpiryKept(db, email, pin, t) ==
  LET u == getUserByEmail(db, email) IN
  IF u.found
    THEN UpdateUser(db, email, [u.row EXCEPT !.passwordResetToken = pin])
    ELSE db

setPasswordResetToken(db, email, pin, t) ==
  LET u == getUserByEmail(db, email) IN
  IF u.found
    THEN UpdateUser(db, email, [u.row EXCEPT !.passwordResetToken = pin,
                                             !.passwordResetTokenExpiry = t + 10])
    ELSE db

verifyPasswordResetPin(db, email, pin, t) ==
  LET u == getUserByEmail(db, email) IN
  IF ~u.found THEN FALSE
  ELSE IF u.row.passwordResetToken = NULL \/ u.row.passwordResetToken # Trim(pin)
    THEN FALSE
  ELSE IF TokenExpired(u.row.passwordResetTokenExpiry, t) THEN FALSE
  ELSE TRUE

\* the UPDATE without the two token columns
WithNewPassword_TokenKept(row, newPasswordHash) ==
  [row EXCEPT !.passwordHash = newPasswordHash]

\* SET passwordHash = ?, passwordResetToken = NULL, passwordResetTokenExpiry = NULL
WithNewPassword(row, newPasswordHash) ==
  [row EXCEPT !.passwordHash = newPasswordHash,
              !.passwordResetToken = NULL,
              !.passwordResetTokenExpiry = 0]

resetPasswordWithToken(db, email, pin, newPassword, t) ==
  LET u == getUserByEmail(db, email) IN
  IF ~u.found THEN [value |-> FALSE, db |-> db]
  ELSE IF u.row.passwordResetToken = NULL \/ u.row.passwordResetToken # Trim(pin)
    THEN [value |-> FALSE, db |-> db]
  ELSE IF TokenExpired(u.row.passwordResetTokenExpiry, t)
    THEN [value |-> FALSE, db |-> db]
  ELSE [value |-> TRUE,
        db |-> UpdateUser(db, email, WithNewPassword(u.row, hashPassword(newPassword)))]

\* generateEmailVerificationPin, with the PIN that Math.random gave
generateEmailVerificationPin(db, email, pin, t) ==
  LET u == getUserByEmail(db, email) IN
  IF u.found
    THEN UpdateUser(db, email, [u.row EXCEPT !.emailVerificationToken = pin,
                                             !.emailVerificationTokenExpiry = t + 10])
    ELSE db

-----------------------------------------------------------------------------
(* The rate limiter called directly, one call at a time *)

\* identifiers the calls are made with: a non-exempt address, and the exempt
\* address written in upper case with surrounding blanks
Identifiers == { <<"u">>, <<" ", "M", " ">> }

NoUsers == [e \in {} |-> {}]

\* proof.db after initDatabase: both tables empty
NoRecords == [records |-> [k \in {} |-> {}], photos |-> {}]

\* the tab navigator's first screen
HomeScreen == [name |-> "Home"]

\* the two callers whose checkRateLimit calls may overlap
Callers == {1, 2}

\* no call is waiting on SecureStore, the image picker or the database
NoCallsInFlight == calls = [p \in Callers |-> [pc |-> "idle"]]

\* no record has been written and no record screen is open
RecordsUntouched ==
  /\ today = 1
  /\ proofDb = NoRecords
  /\ screen = HomeScreen

\* useState<User | null>(null)
NoSession == [present |-> FALSE]

Init ==
  /\ now = 0
  /\ store = [k \in {} |-> {}]
  /\ users = NoUsers
  /\ user = NoSession
  /\ uuids = 0
  /\ classes \in { {type} : type \in Types }
  /\ RecordsUntouched
  /\ NoCallsInFlight
  /\ last = [op |-> "init"]

Tick(step, limit) ==
  /\ now + step <= limit
  /\ now' = now + step
  /\ last' = [op |-> "tick"]
  /\ UNCHANGED <<store, authVars, classes, recordVars, calls>>

\* what SecureStore holds for (type, identifier)
Stored(st, identifier, type) ==
  getItemAsync(st, StorageKey(RateLimitKey(identifier, type)), TRUE)

\* the previous call, when it was a resetRateLimit
Previous ==
  IF last.op = "resetRateLimit"
    THEN [op |-> last.op, identifier |-> last.identifier, type |-> last.type,
          before |-> last.before]
    ELSE [op |-> "other"]

CheckRateLimitCall(identifier, type, readOk, writeOk) ==
  LET r == checkRateLimit(store, identifier, type, now, readOk, writeOk) IN
  /\ store' = r.store
  /\ last' = [op |-> "checkRateLimit", identifier |-> identifier, type |-> type,
              at |-> now, readOk |-> readOk, writeOk |-> writeOk,
              before |-> Stored(store, identifier, type),
              prev |-> Previous, out |-> [x \in DOMAIN r \ {"store"} |-> r[x]]]
  /\ UNCHANGED <<now, authVars, classes, recordVars, calls>>

ResetRateLimitCall(identifier, type, writeOk) ==
  LET r == resetRateLimit(store, identifier, type, writeOk) IN
  /\ store' = r.store
  /\ last' = [op |-> "resetRateLimit", identifier |-> identifier, type |-> type,
              at |-> now, writeOk |-> writeOk,
              before |-> Stored(store, identifier, type),
              out |-> [threw |-> r.threw]]
  /\ UNCHANGED <<now, authVars, classes, recordVars, calls>>

Next ==
  \/ Tick(TickStep, MaxTime)
  \/ \E identifier \in Identifiers, type \in classes :
       CheckRateLimitCall(identifier, type, TRUE, TRUE)
  \/ \E identifier \in Identifiers, type \in classes :
       ResetRateLimitCall(identifier, type, TRUE)

Spec == Init /\ [][Next]_vars

\* the same calls when SecureStore may throw on any read, write or delete
NextStorageFailure ==
  \/ Tick(TickStep, MaxTime)
  \/ \E identifier \in Identifiers, type \in classes, readOk \in BOOLEAN, writeOk \in BOOLEAN :
       CheckRateLimitCall(identifier, type, readOk, writeOk)
  \/ \E identifier \in Identifiers, type \in classes, writeOk \in BOOLEAN :
       ResetRateLimitCall(identifier, type, writeOk)

SpecStorageFailure == Init /\ [][NextStorageFailure]_vars

-----------------------------------------------------------------------------
(* AuthProvider: context/AuthContext.tsx.  SecureStore works in these calls. *)

\* getRateLimitErrorMessage: the text and the minutes it names
getRateLimitErrorMessage(result, t) ==
  IF "lockedUntil" \in DOMAIN result
    THEN [text |-> "Too many attempts. Please try again in", minutes |-> result.lockedUntil - t]
    ELSE [text |-> "Too many attempts. Please try again later."]

Throw(message) == [threw |-> TRUE, message |-> message]

Returned(value) == [threw |-> FALSE, value |-> value]

\* the SecureStore item that keeps the session across restarts
CurrentUserKey == <<"currentUser">>

\* loadStoredUser: the session of a newly started AuthProvider
loadStoredUser(st) ==
  LET storedUser == getItemAsync(st, CurrentUserKey, TRUE) IN
  IF storedUser.found THEN storedUser.entry ELSE NoSession

\* each handler: the store, the table and the session it leaves, and its outcome
login(st, db, sess, email, password, t) ==
  LET identifier == ToLowerCase(email)
      rateLimitCheck == checkRateLimit(st, identifier, "AUTH", t, TRUE, TRUE)
      userData == getUserByEmail(db, email)
      recorded == recordRateLimitAttempt(rateLimitCheck.store, identifier, "AUTH", t, TRUE, TRUE)
  IN
  IF ~rateLimitCheck.result.allowed
    THEN [store |-> rateLimitCheck.store, users |-> db, user |-> sess,
          out |-> Throw(getRateLimitErrorMessage(rateLimitCheck.result, t))]
  ELSE IF ~userData.found
    THEN [store |-> recorded.store, users |-> db, user |-> sess,
          out |-> Throw([text |-> "User not found"])]
  ELSE IF ~verifyPassword(password, userData.row.passwordHash)
    THEN [store |-> recorded.store, users |-> db, user |-> sess,
          out |-> Throw([text |-> "Invalid password"])]
  ELSE IF userData.row.emailVerified # 1
    THEN [store |-> rateLimitCheck.store, users |-> db, user |-> sess,
          out |-> Throw([text |-> "Please verify your email address before logging in."])]
  ELSE LET userObj == [present |-> TRUE, id |-> userData.row.id,
                        email |-> userData.row.email]
       IN
       [store |-> setItemAsync(resetRateLimit(rateLimitCheck.store, identifier,
                                              "AUTH", TRUE).store,
                               CurrentUserKey, userObj, TRUE).store,
        users |-> db,
        user |-> userObj,
        out |-> Returned("undefined")]

\* signup, with the PIN generatePin gave and the id randomUUID gave; a failed
\* sendVerificationEmail is logged and ignored
\* a signup that signs the new account in
signup_SignedIn(st, db, sess, email, password, verificationPin, id, t) ==
  IF getUserByEmail(db, email).found
    THEN [store |-> st, users |-> db, user |-> sess,
          out |-> Throw([text |-> "Email already registered"])]
    ELSE [store |-> st,
          users |-> createUser(db, email, password, verificationPin, t, id),
          user |-> [present |-> TRUE, id |-> id, email |-> Trim(ToLowerCase(email))],
          out |-> Returned(id)]

signup(st, db, sess, email, password, verificationPin, id, t) ==
  IF getUserByEmail(db, email).found
    THEN [store |-> st, users |-> db, user |-> sess,
          out |-> Throw([text |-> "Email already registered"])]
    ELSE [store |-> st,
          users |-> createUser(db, email, password, verificationPin, t, id),
          user |-> sess,
          out |-> Returned(id)]

logout(st, db, sess) ==
  [store |-> deleteItemAsync(st, CurrentUserKey, TRUE).store, users |-> db,
   user |-> NoSession, out |-> Returned("undefined")]

deleteAccount(st, db, sess) ==
  IF ~sess.present
    THEN [store |-> st, users |-> db, user |-> sess,
          out |-> Throw([text |-> "No user logged in"])]
  ELSE IF ~getUserByEmail(db, sess.email).found
    THEN [store |-> st, users |-> db, user |-> sess,
          out |-> Throw([text |-> "User not found"])]
  ELSE [store |-> deleteItemAsync(st, CurrentUserKey, TRUE).store,
        users |-> deleteUser(db, sess.email), user |-> NoSession,
        out |-> Returned("undefined")]

verifyEmailToken(st, db, sess, email, pin, t) ==
  LET identifier == ToLowerCase(email)
      rateLimitCheck == checkRateLimit(st, identifier, "PIN_VERIFICATION", t, TRUE, TRUE)
      isValid == verifyEmail(db, email, pin, t)
  IN
  IF ~rateLimitCheck.result.allowed
    THEN [store |-> rateLimitCheck.store, users |-> db, user |-> sess,
          out |-> Throw(getRateLimitErrorMessage(rateLimitCheck.result, t))]
  ELSE IF isValid.value
    THEN [store |-> resetRateLimit(rateLimitCheck.store, identifier,
                                   "PIN_VERIFICATION", TRUE).store,
          users |-> isValid.db, user |-> sess, out |-> Returned(TRUE)]
  ELSE [store |-> recordRateLimitAttempt(rateLimitCheck.store, identifier,
                                         "PIN_VERIFICATION", t, TRUE, TRUE).store,
        users |-> isValid.db, user |-> sess, out |-> Returned(FALSE)]

\* resendVerificationEmail, with the PIN Math.random gave and whether the
\* e-mail service accepted the message
resendVerificationEmail(st, db, sess, email, pin, sendOk, t) ==
  LET identifier == ToLowerCase(email)
      rateLimitCheck == checkRateLimit(st, identifier, "EMAIL", t, TRUE, TRUE)
      userData == getUserByEmail(db, email)
      recorded == recordRateLimitAttempt(rateLimitCheck.store, identifier, "EMAIL", t, TRUE, TRUE)
  IN
  IF ~rateLimitCheck.result.allowed
    THEN [store |-> rateLimitCheck.store, users |-> db, user |-> sess, sent |-> NULL,
          out |-> Throw(getRateLimitErrorMessage(rateLimitCheck.result, t))]
  ELSE IF ~userData.found
    THEN [store |-> recorded.store, users |-> db, user |-> sess, sent |-> NULL,
          out |-> Throw([text |-> "User not found"])]
  ELSE IF userData.row.emailVerified = 1
    THEN [store |-> rateLimitCheck.store, users |-> db, user |-> sess, sent |-> NULL,
          out |-> Throw([text |-> "Email is already verified"])]
  ELSE IF ~sendOk
    THEN [store |-> rateLimitCheck.store,
          users |-> generateEmailVerificationPin(db, email, pin, t),
          user |-> sess, sent |-> pin,
          out |-> Throw([text |-> "sendVerificationEmail failed"])]
  ELSE [store |-> recorded.store,
        users |-> generateEmailVerificationPin(db, email, pin, t),
        user |-> sess, sent |-> pin,
        out |-> Returned("undefined")]

\* the reset PIN stored before the rate limiter is asked
requestPasswordReset_TokenFirst(st, db, sess, email, resetPin, sendOk, t) ==
  LET identifier == ToLowerCase(email)
      rateLimitCheck == checkRateLimit(st, identifier, "EMAIL", t, TRUE, TRUE)
      userData == getUserByEmail(db, email)
      recorded == recordRateLimitAttempt(rateLimitCheck.store, identifier, "EMAIL", t, TRUE, TRUE)
  IN
  IF ~rateLimitCheck.result.allowed
    THEN [store |-> rateLimitCheck.store,
          users |-> setPasswordResetToken(db, email, resetPin, t),
          user |-> sess, sent |-> NULL,
          out |-> Throw(getRateLimitErrorMessage(rateLimitCheck.result, t))]
  ELSE IF ~userData.found
    THEN [store |-> recorded.store, users |-> db, user |-> sess, sent |-> NULL,
          out |-> Returned("undefined")]
  ELSE IF ~sendOk
    THEN [store |-> rateLimitCheck.store,
          users |-> setPasswordResetToken(db, email, resetPin, t),
          user |-> sess, sent |-> resetPin,
          out |-> Throw([text |-> "Failed to send password reset email"])]
  ELSE [store |-> recorded.store,
        users |-> setPasswordResetToken(db, email, resetPin, t),
        user |-> sess, sent |-> resetPin,
        out |-> Returned("undefined")]

requestPasswordReset(st, db, sess, email, resetPin, sendOk, t) ==
  LET identifier == ToLowerCase(email)
      rateLimitCheck == checkRateLimit(st, identifier, "EMAIL", t, TRUE, TRUE)
      userData == getUserByEmail(db, email)
      recorded == recordRateLimitAttempt(rateLimitCheck.store, identifier, "EMAIL", t, TRUE, TRUE)
  IN
  IF ~rateLimitCheck.result.allowed
    THEN [store |-> rateLimitCheck.store, users |-> db, user |-> sess, sent |-> NULL,
          out |-> Throw(getRateLimitErrorMessage(rateLimitCheck.result, t))]
  ELSE IF ~userData.found
    THEN [store |-> recorded.store, users |-> db, user |-> sess, sent |-> NULL,
          out |-> Returned("undefined")]
  ELSE IF ~sendOk
    THEN [store |-> rateLimitCheck.store,
          users |-> setPasswordResetToken(db, email, resetPin, t),
          user |-> sess, sent |-> resetPin,
          out |-> Throw([text |-> "Failed to send password reset email"])]
  ELSE [store |-> recorded.store,
        users |-> setPasswordResetToken(db, email, resetPin, t),
        user |-> sess, sent |-> resetPin,
        out |-> Returned("undefined")]

verifyPasswordResetPinCode(st, db, sess, email, pin, t) ==
  [store |-> st, users |-> db, user |-> sess,
   out |-> Returned(verifyPasswordResetPin(db, email, pin, t))]

resetPassword(st, db, sess, email, pin, newPassword, t) ==
  LET r == resetPasswordWithToken(db, email, pin, newPassword, t) IN
  [store |-> st, users |-> r.db, user |-> sess, out |-> Returned(r.value)]

-----------------------------------------------------------------------------
(* The handlers called by the screens, one call at a time *)

\* the screens trim the address and the PIN before they call
\* and pass the address on as typed, here with a capital letter
Emails == { <<"U">> }
Passwords == { <<"p">>, <<"q">> }
\* the one password used where the calls are about PINs
PinPasswords == { <<"p">> }
\* the values generatePin may give, and the PINs a user may type
Pins == { <<"1">>, <<"2">> }

InitAuth ==
  /\ now = 0
  /\ store = [k \in {} |-> {}]
  /\ users = NoUsers
  /\ user = NoSession
  /\ uuids = 0
  /\ classes = Types
  /\ RecordsUntouched
  /\ NoCallsInFlight
  /\ last = [op |-> "init"]

\* the previous call, when it was a verification that accepted its PIN or a
\* request that stored a token, with the token the row held before it
PreviousCall ==
  IF /\ last.op \in {"verifyEmailToken", "resetPassword"}
     /\ ~last.out.threw
     /\ last.out.value = TRUE
    THEN [op |-> last.op, email |-> last.email, pin |-> last.pin, accepted |-> TRUE]
  ELSE IF /\ last.op \in {"resendVerificationEmail", "requestPasswordReset"}
          /\ last.sent # NULL
          /\ last.before.found
    THEN [op |-> last.op, email |-> last.email, accepted |-> FALSE,
          replaced |-> IF last.op = "resendVerificationEmail"
                         THEN last.before.row.emailVerificationToken
                         ELSE last.before.row.passwordResetToken]
    ELSE [accepted |-> FALSE]

\* the state a handler leaves, and the record of the call
Handled(r, call) ==
  /\ store' = r.store
  /\ users' = r.users
  /\ user' = r.user
  /\ last' = [x \in DOMAIN call \cup {"at", "before", "limiter", "out", "prev"} |->
               CASE x = "at" -> now
                 [] x = "prev" -> PreviousCall
                 [] x = "before" -> getUserByEmail(users, call.email)
                 [] x = "limiter" ->
                      Stored(store, ToLowerCase(call.email), "PIN_VERIFICATION")
                 [] x = "out" -> r.out
                 [] OTHER -> call[x]]
  /\ UNCHANGED <<now, classes, recordVars, calls>>

Login(email, password) ==
  /\ Handled(login(store, users, user, email, password, now),
             [op |-> "login", email |-> email, password |-> password])
  /\ UNCHANGED uuids

Signup(email, password, pin) ==
  /\ uuids < MaxAccounts
  /\ Handled(signup(store, users, user, email, password, pin, uuids + 1, now),
             [op |-> "signup", email |-> email, password |-> password, pin |-> pin])
  /\ uuids' = IF getUserByEmail(users, email).found THEN uuids ELSE uuids + 1

Logout ==
  /\ Handled(logout(store, users, user), [op |-> "logout", email |-> <<>>])
  /\ UNCHANGED uuids

DeleteAccount ==
  /\ Handled(deleteAccount(store, users, user),
             [op |-> "deleteAccount",
              email |-> IF user.present THEN user.email ELSE <<>>])
  /\ UNCHANGED uuids

VerifyEmailToken(email, pin) ==
  LET r == verifyEmailToken(store, users, user, email, pin, now) IN
  /\ Handled(r, [op |-> "verifyEmailToken", email |-> email, pin |-> pin])
  /\ UNCHANGED uuids

\* the users table of the run that differs only in that no account exists for
\* the address: getUserByEmail gives null there
AccountAbsent(db, email) ==
  [x \in DOMAIN db \ {Trim(ToLowerCase(email))} |-> db[x]]

ResendVerificationEmail(email, pin, sendOk) ==
  LET r == resendVerificationEmail(store, users, user, email, pin, sendOk, now)
      o == resendVerificationEmail(store, AccountAbsent(users, email), user, email,
                                   pin, sendOk, now)
  IN
  /\ Handled(r, [op |-> "resendVerificationEmail", email |-> email, sent |-> r.sent,
                 other |-> o.out])
  /\ UNCHANGED uuids

RequestPasswordReset(email, pin, sendOk) ==
  LET r == requestPasswordReset(store, users, user, email, pin, sendOk, now)
      o == requestPasswordReset(store, AccountAbsent(users, email), user, email,
                                pin, sendOk, now)
  IN
  /\ Handled(r, [op |-> "requestPasswordReset", email |-> email, sent |-> r.sent,
                 other |-> o.out])
  /\ UNCHANGED uuids

VerifyPasswordResetPinCode(email, pin) ==
  /\ Handled(verifyPasswordResetPinCode(store, users, user, email, pin, now),
             [op |-> "verifyPasswordResetPinCode", email |-> email, pin |-> pin])
  /\ UNCHANGED uuids

ResetPassword(email, pin, newPassword) ==
  LET r == resetPassword(store, users, user, email, pin, newPassword, now) IN
  /\ Handled(r, [op |-> "resetPassword", email |-> email, pin |-> pin,
                 password |-> newPassword])
  /\ UNCHANGED uuids

\* the calls that issue and verify PINs
NextPin ==
  \/ Tick(AuthTickStep, MaxAuthTime)
  \/ \E email \in Emails, password \in PinPasswords, pin \in Pins :
       Signup(email, password, pin)
  \/ \E email \in Emails, pin \in Pins : VerifyEmailToken(email, pin)
  \/ \E email \in Emails, pin \in Pins, sendOk \in BOOLEAN :
       ResendVerificationEmail(email, pin, sendOk)
  \/ \E email \in Emails, pin \in Pins, sendOk \in BOOLEAN :
       RequestPasswordReset(email, pin, sendOk)
  \/ \E email \in Emails, pin \in Pins : VerifyPasswordResetPinCode(email, pin)
  \/ \E email \in Emails, pin \in Pins, password \in PinPasswords :
       ResetPassword(email, pin, password)

SpecPin == InitAuth /\ [][NextPin]_vars

-----------------------------------------------------------------------------
(* Claims about the rate limiter called directly *)

LastCheck == last.op = "checkRateLimit"

\* the entry SecureStore holds now for the identifier and class of the last call
StoredNow == Stored(store, last.identifier, last.type)

\* the last call found an unlocked entry whose window has not elapsed
InWindow ==
  /\ last.before.found
  /\ "lockedUntil" \notin DOMAIN last.before.entry
  /\ last.at - last.before.entry.firstAttempt <= RATE_LIMIT_CONFIG[last.type].windowMs

\* the last call found an entry whose lockout is still running
FoundLocked ==
  /\ last.before.found
  /\ "lockedUntil" \in DOMAIN last.before.entry
  /\ last.at < last.before.entry.lockedUntil

Denied(out) ==
  /\ ~out.threw
  /\ out.result.allowed = FALSE
  /\ "lockedUntil" \in DOMAIN out.result

Allowed(out, remaining) ==
  /\ ~out.threw
  /\ out.result = [allowed |-> TRUE, remainingAttempts |-> remaining]

\* C1 as stated: for a non-exempt identifier in class AUTH, the first five
\* calls in a window are each allowed with remainingAttempts 4, 3, 2, 1, 0 and
\* only the sixth is denied, with a lockedUntil in the future.
C1_FiveAllowedSixthDenied ==
  (LastCheck /\ last.type = "AUTH" /\ last.identifier = <<"u">>) =>
    /\ ~last.before.found => Allowed(last.out, 4)
    /\ (InWindow /\ last.before.entry.attempts \in 1..4) =>
         Allowed(last.out, 4 - last.before.entry.attempts)
    /\ FoundLocked =>
         Denied(last.out) /\ last.out.result.lockedUntil > last.at

\* C1 amended: the first four calls in a window are allowed with
\* remainingAttempts 4, 3, 2, 1, each adding one to the stored attempts; the
\* fifth call is denied with remainingAttempts 0 and lockedUntil = now + 30
\* minutes, and the sixth call is denied with that same future lockedUntil.
C1_FourAllowedFifthDenied ==
  (LastCheck /\ last.type = "AUTH" /\ last.identifier = <<"u">>) =>
    /\ ~last.before.found =>
         Allowed(last.out, 4) /\ StoredNow.entry.attempts = 1
    /\ (InWindow /\ last.before.entry.attempts \in 1..3) =>
         /\ Allowed(last.out, 4 - last.before.entry.attempts)
         /\ StoredNow.entry.attempts = last.before.entry.attempts + 1
    /\ (InWindow /\ last.before.entry.attempts = 4) =>
         /\ Denied(last.out)
         /\ last.out.result.remainingAttempts = 0
         /\ last.out.result.lockedUntil = last.at + 30
         /\ StoredNow.entry.attempts = 5
         /\ StoredNow.entry.lockedUntil = last.at + 30
    /\ FoundLocked =>
         /\ Denied(last.out)
         /\ last.out.result.lockedUntil > last.at
         /\ last.out.result.lockedUntil = last.before.entry.lockedUntil

\* the sixth call of a window has been made: it found the lockout the fifth set
C1_Witness ==
  /\ LastCheck /\ last.type = "AUTH" /\ last.identifier = <<"u">>
  /\ FoundLocked
  /\ last.before.entry.attempts = 5
  /\ last.at = last.before.entry.firstAttempt
  /\ Denied(last.out)

\* C2: the first call made at or after lockedUntil is allowed with
\* remainingAttempts = maxAttempts - 1 and replaces the locked entry by a fresh
\* window (attempts 1, firstAttempt = now, no lockedUntil).
C2_LockoutExpires ==
  (/\ LastCheck
   /\ last.before.found
   /\ "lockedUntil" \in DOMAIN last.before.entry
   /\ last.at >= last.before.entry.lockedUntil) =>
    /\ Allowed(last.out, RATE_LIMIT_CONFIG[last.type].maxAttempts - 1)
    /\ StoredNow.found
    /\ StoredNow.entry = [attempts |-> 1, firstAttempt |-> last.at]

\* a call made exactly at lockedUntil in class EMAIL, whose window (60 minutes)
\* had not elapsed, was allowed
C2_Witness ==
  /\ LastCheck /\ last.type = "EMAIL"
  /\ last.before.found
  /\ "lockedUntil" \in DOMAIN last.before.entry
  /\ last.at = last.before.entry.lockedUntil
  /\ last.at - last.before.entry.firstAttempt = 60
  /\ Allowed(last.out, 2)

\* C3: a call made while lockedUntil is in the future is denied with
\* remainingAttempts 0 and exactly the stored lockedUntil, and leaves the
\* stored entry as it was.
C3_LockedCallChangesNothing ==
  (LastCheck /\ FoundLocked) =>
    /\ ~last.out.threw
    /\ last.out.result = [allowed |-> FALSE, remainingAttempts |-> 0,
                           lockedUntil |-> last.before.entry.lockedUntil]
    /\ StoredNow = last.before

\* a denied call made later than the call that set the lockout
C3_Witness ==
  /\ LastCheck /\ FoundLocked
  /\ last.at > last.before.entry.firstAttempt
  /\ last.at + TickStep >= last.before.entry.lockedUntil
  /\ Denied(last.out)

\* C4: every call for the exempt address (in any case, with surrounding
\* blanks) is allowed in every class, and SecureStore never holds an entry
\* for it.
C4_ExemptNeverLimited ==
  /\ \A type \in Types : ~Stored(store, <<" ", "M", " ">>, type).found
  /\ (LastCheck /\ last.identifier = <<" ", "M", " ">>) =>
       /\ ~last.out.threw
       /\ last.out.result.allowed = TRUE
       /\ "lockedUntil" \notin DOMAIN last.out.result

\* the exempt address was checked while the non-exempt one, called equally
\* often at most, was locked out in the same class
C4_Witness ==
  /\ LastCheck /\ last.identifier = <<" ", "M", " ">>
  /\ last.out.result.allowed
  /\ Stored(store, <<"u">>, last.type).found
  /\ "lockedUntil" \in DOMAIN Stored(store, <<"u">>, last.type).entry

\* C5: resetRateLimit leaves no entry for its (class, identifier), whatever
\* was stored, and the checkRateLimit that follows it is a first attempt:
\* allowed, remainingAttempts = maxAttempts - 1, stored attempts 1.
C5_ResetThenFirstAttempt ==
  /\ last.op = "resetRateLimit" => ~StoredNow.found
  /\ (/\ LastCheck
      /\ last.prev.op = "resetRateLimit"
      /\ last.prev.identifier = last.identifier
      /\ last.prev.type = last.type
      /\ last.identifier = <<"u">>) =>
       /\ Allowed(last.out, RATE_LIMIT_CONFIG[last.type].maxAttempts - 1)
       /\ StoredNow.found
       /\ StoredNow.entry = [attempts |-> 1, firstAttempt |-> last.at]

\* a check that followed the reset of a running lockout
C5_Witness ==
  /\ LastCheck
  /\ last.prev.op = "resetRateLimit"
  /\ last.prev.identifier = last.identifier
  /\ last.prev.type = last.type
  /\ last.prev.before.found
  /\ "lockedUntil" \in DOMAIN last.prev.before.entry
  /\ last.at < last.prev.before.entry.lockedUntil
  /\ last.out.result.allowed

\* C6: with SecureStore failing at will, checkRateLimit and resetRateLimit
\* never throw; a call whose read failed is allowed; a call whose write or
\* delete failed leaves SecureStore as it was and returns what the same call
\* returns when the write succeeds.
C6_StorageFailuresSwallowed ==
  (last.op \in {"checkRateLimit", "resetRateLimit"}) =>
    /\ ~last.out.threw
    /\ (LastCheck /\ ~last.readOk) =>
         /\ last.out.result.allowed = TRUE
         /\ "lockedUntil" \notin DOMAIN last.out.result
    /\ ~last.writeOk => StoredNow = last.before
    /\ (LastCheck /\ ~last.writeOk) =>
         last.out.result =
           checkRateLimit(store, last.identifier, last.type, last.at,
                          last.readOk, TRUE).result

\* a call whose read failed was allowed although a lockout was running
C6_Witness ==
  /\ LastCheck
  /\ ~last.readOk
  /\ FoundLocked
  /\ last.out.result.allowed

\* a call whose write failed returned a denial that it could not store
C6_WitnessWriteFailed ==
  /\ LastCheck
  /\ last.readOk /\ ~last.writeOk
  /\ InWindow
  /\ Denied(last.out)
  /\ "lockedUntil" \notin DOMAIN StoredNow.entry

-----------------------------------------------------------------------------
(* Claims about PIN tokens *)

Verifications == {"verifyEmailToken", "verifyPasswordResetPinCode", "resetPassword"}

\* the last call returned true
Accepted == ~last.out.threw /\ last.out.value = TRUE

\* the last call returned false
Rejected == ~last.out.threw /\ last.out.value = FALSE

\* the account of the last call as it is now
AccountNow == getUserByEmail(users, last.email)

\* the token and the expiry a row holds for the purpose of a call
StoredToken(row, op) ==
  IF op \in {"verifyEmailToken", "resendVerificationEmail", "signup"}
    THEN row.emailVerificationToken ELSE row.passwordResetToken

StoredExpiry(row, op) ==
  IF op \in {"verifyEmailToken", "resendVerificationEmail", "signup"}
    THEN row.emailVerificationTokenExpiry ELSE row.passwordResetTokenExpiry

\* C7: an accepted verifyEmailToken or resetPassword leaves the token and the
\* expiry of its purpose cleared; the same PIN submitted again in the next
\* call is not accepted; no verification is accepted while the stored token
\* is cleared, and only a new request stores a token again.
C7_TokenSingleUse ==
  /\ (last.op \in {"verifyEmailToken", "resetPassword"} /\ Accepted) =>
       /\ AccountNow.found
       /\ StoredToken(AccountNow.row, last.op) = NULL
       /\ StoredExpiry(AccountNow.row, last.op) = 0
  /\ (/\ last.op \in {"verifyEmailToken", "resetPassword"}
      /\ last.prev.accepted
      /\ last.prev.op = last.op
      /\ last.prev.email = last.email
      /\ last.prev.pin = last.pin) => ~Accepted
  /\ (/\ last.op \in Verifications
      /\ last.before.found
      /\ StoredToken(last.before.row, last.op) = NULL) => ~Accepted
  /\ (/\ "before" \in DOMAIN last
      /\ last.before.found
      /\ AccountNow.found) =>
       /\ (/\ last.before.row.passwordResetToken = NULL
           /\ AccountNow.row.passwordResetToken # NULL) =>
            last.op = "requestPasswordReset"
       /\ (/\ last.before.row.emailVerificationToken = NULL
           /\ AccountNow.row.emailVerificationToken # NULL) =>
            last.op = "resendVerificationEmail"

\* resetPassword was called again with the PIN it had just accepted
C7_Witness ==
  /\ last.op = "resetPassword"
  /\ last.prev.accepted
  /\ last.prev.op = "resetPassword"
  /\ last.prev.pin = last.pin
  /\ Rejected

\* the same for verifyEmailToken
C7_WitnessEmail ==
  /\ last.op = "verifyEmailToken"
  /\ last.prev.accepted
  /\ last.prev.op = "verifyEmailToken"
  /\ last.prev.pin = last.pin
  /\ Rejected

\* the last call submitted the stored token after its expiry
SubmittedExpired ==
  /\ last.op \in Verifications
  /\ last.before.found
  /\ StoredToken(last.before.row, last.op) = last.pin
  /\ StoredExpiry(last.before.row, last.op) # 0
  /\ last.at > StoredExpiry(last.before.row, last.op)

\* C8: every stored token has an expiry, which is the time of the call that
\* issued it plus 10 minutes; a verification that submits the stored token
\* after that instant is not accepted and changes nothing in the account.
C8_ExpiredTokenRejected ==
  /\ \A k \in DOMAIN users :
       /\ users[k].emailVerificationToken # NULL =>
            /\ users[k].emailVerificationTokenExpiry # 0
            /\ users[k].emailVerificationTokenExpiry <= now + 10
       /\ users[k].passwordResetToken # NULL =>
            /\ users[k].passwordResetTokenExpiry # 0
            /\ users[k].passwordResetTokenExpiry <= now + 10
  /\ (/\ last.op \in {"signup", "resendVerificationEmail", "requestPasswordReset"}
      /\ AccountNow.found
      /\ ~last.before.found \/ AccountNow.row # last.before.row) =>
       StoredExpiry(AccountNow.row, last.op) = last.at + 10
  /\ SubmittedExpired =>
       /\ ~Accepted
       /\ ~last.out.threw => last.out.value = FALSE
       /\ AccountNow = last.before

\* verifyEmailToken returned false for the right PIN, submitted too late
C8_Witness ==
  /\ SubmittedExpired
  /\ last.op = "verifyEmailToken"
  /\ last.before.row.emailVerified = 0
  /\ Rejected

\* the same for resetPassword
C8_WitnessReset ==
  /\ SubmittedExpired
  /\ last.op = "resetPassword"
  /\ Rejected

\* the PIN_VERIFICATION lockout of the identifier was running at the last call
PinLockedOut ==
  /\ last.limiter.found
  /\ "lockedUntil" \in DOMAIN last.limiter.entry
  /\ last.at < last.limiter.entry.lockedUntil

\* the PIN_VERIFICATION entry of the last call's identifier as it is now
LimiterNow == Stored(store, ToLowerCase(last.email), "PIN_VERIFICATION")

\* C9: no verification, for either purpose, accepts a PIN while the
\* PIN_VERIFICATION lockout of the identifier is running.
C9_LockedOutNeverAccepted ==
  (last.op \in Verifications /\ PinLockedOut) => ~Accepted

\* C9 for verifyEmailToken alone
C9_EmailVerificationGuarded ==
  (last.op = "verifyEmailToken" /\ PinLockedOut) =>
    /\ last.out.threw
    /\ AccountNow = last.before

\* C10: a verification that returns false leaves a PIN_VERIFICATION entry
\* for the identifier, and one that returns true leaves the token and expiry
\* cleared and no PIN_VERIFICATION entry.
C10_OutcomeRecorded ==
  (last.op \in Verifications) =>
    /\ Rejected => LimiterNow.found
    /\ Accepted =>
         /\ StoredToken(AccountNow.row, last.op) = NULL
         /\ StoredExpiry(AccountNow.row, last.op) = 0
         /\ ~LimiterNow.found

\* C10 for verifyEmailToken alone
C10_EmailVerificationRecorded ==
  (last.op = "verifyEmailToken") =>
    /\ Rejected =>
         /\ LimiterNow.found
         /\ last.limiter.found =>
              \/ LimiterNow.entry.attempts > last.limiter.entry.attempts
              \/ LimiterNow.entry.firstAttempt = last.at
    /\ Accepted =>
         /\ StoredToken(AccountNow.row, last.op) = NULL
         /\ StoredExpiry(AccountNow.row, last.op) = 0
         /\ ~LimiterNow.found

-----------------------------------------------------------------------------
(* Claims about what a token request shows its caller *)

TokenRequests == last.op \in {"resendVerificationEmail", "requestPasswordReset"}

\* C11: a token request (resendVerificationEmail, requestPasswordReset) gives
\* its caller the same outcome, returned or thrown and with the same message,
\* as the same call made in the run where no account exists for the address
C11_SameOutcomeWithoutAccount ==
  TokenRequests => last.out = last.other

\* requestPasswordReset alone, when the e-mail service accepts the message,
\* does give the same outcome with and without the account
C11_PasswordResetWhenSent ==
  (/\ last.op = "requestPasswordReset"
   /\ ~(last.out.threw /\ last.out.message.text = "Failed to send password reset email"))
  => last.out = last.other

-----------------------------------------------------------------------------
(* The account store called directly, one call at a time: db/auth.ts *)

\* accounts ever created through direct calls
MaxDbAccounts == 2

\* addresses as the callers pass them: not yet lowered or trimmed
DbEmails == { <<"U", " ">> }

\* the state a call on the account store leaves, and the record of the call
DbCalled(db, call, out) ==
  /\ users' = db
  /\ last' = [x \in DOMAIN call \cup {"at", "before", "out"} |->
               CASE x = "at" -> now
                 [] x = "before" -> getUserByEmail(users, call.email)
                 [] x = "out" -> out
                 [] OTHER -> call[x]]
  /\ UNCHANGED <<now, store, user, classes, recordVars, calls>>

\* createUser; the INSERT fails on the UNIQUE email column when the address is taken
CreateUserCall(email, password, pin) ==
  LET taken == getUserByEmail(users, email).found IN
  /\ uuids < MaxDbAccounts
  /\ DbCalled(IF taken THEN users ELSE createUser(users, email, password, pin, now, uuids + 1),
              [op |-> "createUser", email |-> email],
              IF taken THEN Throw([text |-> "UNIQUE constraint failed"]) ELSE Returned(uuids + 1))
  /\ uuids' = IF taken THEN uuids ELSE uuids + 1

ChangeUserPasswordCall(email, currentPassword, newPassword) ==
  LET r == changeUserPassword(users, email, currentPassword, newPassword) IN
  /\ DbCalled(r.db, [op |-> "changeUserPassword", email |-> email], [threw |-> r.threw])
  /\ UNCHANGED uuids

DeleteUserCall(email) ==
  LET found == getUserByEmail(users, email).found IN
  /\ DbCalled(IF found THEN deleteUser(users, email) ELSE users,
              [op |-> "deleteUser", email |-> email], [threw |-> ~found])
  /\ UNCHANGED uuids

VerifyEmailCall(email, token) ==
  LET r == verifyEmail(users, email, token, now) IN
  /\ DbCalled(r.db, [op |-> "verifyEmail", email |-> email, token |-> token],
              Returned(r.value))
  /\ UNCHANGED uuids

GenerateEmailVerificationPinCall(email, pin) ==
  /\ DbCalled(generateEmailVerificationPin(users, email, pin, now),
              [op |-> "generateEmailVerificationPin", email |-> email], Returned(pin))
  /\ UNCHANGED uuids

SetPasswordResetTokenCall(email, pin) ==
  /\ DbCalled(setPasswordResetToken(users, email, pin, now),
              [op |-> "setPasswordResetToken", email |-> email], Returned("undefined"))
  /\ UNCHANGED uuids

VerifyPasswordResetPinCall(email, pin) ==
  /\ DbCalled(users, [op |-> "verifyPasswordResetPin", email |-> email, token |-> pin],
              Returned(verifyPasswordResetPin(users, email, pin, now)))
  /\ UNCHANGED uuids

ResetPasswordWithTokenCall(email, pin, newPassword) ==
  LET r == resetPasswordWithToken(users, email, pin, newPassword, now) IN
  /\ DbCalled(r.db, [op |-> "resetPasswordWithToken", email |-> email, token |-> pin],
              Returned(r.value))
  /\ UNCHANGED uuids

NextDb ==
  \/ Tick(AuthTickStep, MaxAuthTime)
  \/ \E email \in DbEmails, password \in Passwords, pin \in Pins :
       CreateUserCall(email, password, pin)
  \/ \E email \in DbEmails, currentPassword \in Passwords, newPassword \in Passwords :
       ChangeUserPasswordCall(email, currentPassword, newPassword)
  \/ \E email \in DbEmails : DeleteUserCall(email)
  \/ \E email \in DbEmails, token \in Pins : VerifyEmailCall(email, token)
  \/ \E email \in DbEmails, pin \in Pins : GenerateEmailVerificationPinCall(email, pin)
  \/ \E email \in DbEmails, pin \in Pins : SetPasswordResetTokenCall(email, pin)
  \/ \E email \in DbEmails, pin \in Pins : VerifyPasswordResetPinCall(email, pin)
  \/ \E email \in DbEmails, pin \in Pins, newPassword \in Passwords :
       ResetPasswordWithTokenCall(email, pin, newPassword)

SpecDb == InitAuth /\ [][NextDb]_vars

\* a verifyEmail call on an account that was already verified returned false
\* and left the account as it was
VerifiedRejected ==
  (/\ last.op = "verifyEmail"
   /\ last.before.found
   /\ last.before.row.emailVerified = 1)
  => /\ last.out = Returned(FALSE)
     /\ getUserByEmail(users, last.email) = last.before

\* no step clears the flag of an account that stays in the table
FlagKept ==
  \A k \in DOMAIN users :
    (/\ users[k].emailVerified = 1
     /\ k \in DOMAIN users'
     /\ users'[k].id = users[k].id)
    => users'[k].emailVerified = 1

\* C12: once an account's emailVerified flag is set no operation clears it,
\* and every later verifyEmail for the account returns false and leaves the
\* account unchanged, whatever token is submitted
C12_VerifiedStaysVerified == []VerifiedRejected /\ [][FlagKept]_vars

\* a verifyEmail call submitted the token stored for an account already verified
C12_Witness ==
  /\ last.op = "verifyEmail"
  /\ last.before.found
  /\ last.before.row.emailVerified = 1
  /\ last.before.row.emailVerificationToken = last.token
  /\ ~TokenExpired(last.before.row.emailVerificationTokenExpiry, last.at)

-----------------------------------------------------------------------------
(* Record hashing: utils/hashing.ts *)

(* A JavaScript value is a record [t, v]: t is what typeof and Array.isArray
   tell about it, v its content.  An object's content is the sequence of its
   <<key, value>> pairs in insertion order, which is the order Object.keys
   gives.  Text is a sequence of tokens: single characters, and property
   names written as one token each. *)
JsNull == [t |-> "null", v |-> <<>>]
JsNumber(n) == [t |-> "number", v |-> n]
JsString(str) == [t |-> "string", v |-> str]
JsArray(items) == [t |-> "array", v |-> items]
JsObject(pairs) == [t |-> "object", v |-> pairs]

\* the decimal digits of a natural number, as JSON.stringify writes a number
RECURSIVE Digits(_)
Digits(n) ==
  LET digit == <<"0", "1", "2", "3", "4", "5", "6", "7", "8", "9">>[(n % 10) + 1] IN
  IF n < 10 THEN <<digit>> ELSE Digits(n \div 10) \o <<digit>>

\* JSON.stringify of a string: quoted, with the quote and the backslash escaped
RECURSIVE Escaped(_)
Escaped(str) ==
  IF str = <<>> THEN <<>>
  ELSE (IF Head(str) \in {"\"", "\\"} THEN <<"\\", Head(str)>> ELSE <<Head(str)>>)
       \o Escaped(Tail(str))

Quoted(str) == <<"\"">> \o Escaped(str) \o <<"\"">>

\* the property names of the model in the order of their UTF-16 code units,
\* which is the order Array.prototype.sort without a comparator puts them in
CodeUnitOrder ==
  <<"a", "b", "c", "createdAt", "dateKey", "id", "mimeType", "note", "photos",
    "sha256", "sortIndex">>

CodeUnitRank(key) == CHOOSE i \in 1..Len(CodeUnitOrder) : CodeUnitOrder[i] = key

\* Array.prototype.sort, which is stable: each element in turn is put before
\* the first element it precedes; `precedes` holds the pairs <<x, y>> for
\* which the comparison puts x before y
InsertSorted(x, sorted, precedes) ==
  LET before == { i \in 1..Len(sorted) : <<x, sorted[i]>> \in precedes }
      pos == IF before = {} THEN Len(sorted) + 1
             ELSE CHOOSE i \in before : \A j \in before : i <= j
  IN SubSeq(sorted, 1, pos - 1) \o <<x>> \o SubSeq(sorted, pos, Len(sorted))

Sort(items, precedes) ==
  LET sortedPrefix[k \in 0..Len(items)] ==
        IF k = 0 THEN <<>> ELSE InsertSorted(items[k], sortedPrefix[k - 1], precedes)
  IN sortedPrefix[Len(items)]

\* the elements of a sequence
Elements(items) == { items[i] : i \in 1..Len(items) }

RECURSIVE Join(_)
Join(parts) ==
  IF parts = <<>> THEN <<>>
  ELSE IF Len(parts) = 1 THEN parts[1]
  ELSE parts[1] \o <<",">> \o Join(Tail(parts))

\* Object.keys(obj) without the sort: the pairs as they were inserted
SortedKeys_InsertionOrder(pairs) == pairs

\* Object.keys(obj).sort(), each key with its value
SortedKeys(pairs) ==
  Sort(pairs, { pq \in Elements(pairs) \X Elements(pairs) :
                  CodeUnitRank(pq[1][1]) < CodeUnitRank(pq[2][1]) })

RECURSIVE stableStringify(_)
stableStringify(obj) ==
  CASE obj.t = "null" -> <<"null">>
    [] obj.t = "number" -> Digits(obj.v)
    [] obj.t = "string" -> Quoted(obj.v)
    [] obj.t = "array" ->
         <<"[">> \o Join([i \in 1..Len(obj.v) |-> stableStringify(obj.v[i])]) \o <<"]">>
    [] obj.t = "object" ->
         LET keys == SortedKeys(obj.v) IN
         <<"{">> \o Join([i \in 1..Len(keys) |->
                            <<"\"", keys[i][1], "\"", ":">> \o stableStringify(keys[i][2])])
         \o <<"}">>

\* sha256Hex: the digest is taken as collision-free.  Its leading hex digits
\* are written out, in lower case as the digest API gives them; the digits
\* that follow are stood for by the input they are computed from.
sha256Hex(input) == <<"d", "9", "e">> \o input

\* String.prototype.localeCompare on the ids of the model: negative, zero, positive
Collation == <<"a", "b", "c", "d", "e">>

localeCompare(a, b) ==
  (CHOOSE i \in 1..Len(Collation) : Collation[i] = a)
  - (CHOOSE i \in 1..Len(Collation) : Collation[i] = b)

\* the comparator that looks at sortIndex only
ComparePhotos_SortIndexOnly(a, b) == a.sortIndex - b.sortIndex

\* the comparator of buildCanonicalRecord
ComparePhotos(a, b) ==
  IF a.sortIndex # b.sortIndex THEN a.sortIndex - b.sortIndex
  ELSE localeCompare(a.id, b.id)

\* the descriptor serialized without the hash of the photo's bytes
PhotoHashValue_NoSha256(photo) ==
  JsObject(<< <<"id", JsString(<<photo.id>>)>>,
              <<"mimeType", JsString(<<photo.mimeType>>)>>,
              <<"sortIndex", JsNumber(photo.sortIndex)>> >>)

\* a PhotoHash object literal: { id, mimeType, sha256, sortIndex }
PhotoHashValue(photo) ==
  JsObject(<< <<"id", JsString(<<photo.id>>)>>,
              <<"mimeType", JsString(<<photo.mimeType>>)>>,
              <<"sha256", JsString(<<photo.sha256>>)>>,
              <<"sortIndex", JsNumber(photo.sortIndex)>> >>)

\* buildCanonicalRecord: { dateKey, createdAt, note: note || "", photos: sortedPhotos }
buildCanonicalRecord(dateKey, createdAt, note, photos) ==
  LET sortedPhotos ==
        Sort(photos, { ab \in Elements(photos) \X Elements(photos) :
                         ComparePhotos(ab[1], ab[2]) < 0 })
  IN JsObject(<< <<"dateKey", JsString(dateKey)>>,
                 <<"createdAt", JsNumber(createdAt)>>,
                 <<"note", JsString(note)>>,
                 <<"photos", JsArray([i \in 1..Len(sortedPhotos) |->
                                       PhotoHashValue(sortedPhotos[i])])>> >>)

computeRecordHash(dateKey, createdAt, note, photos) ==
  sha256Hex(stableStringify(buildCanonicalRecord(dateKey, createdAt, note, photos)))

\* the comparison without toLowerCase
SameHash_CaseSensitive(storedHash, computedHash) == storedHash = computedHash

\* storedHash.toLowerCase() === computedHash.toLowerCase()
SameHash(storedHash, computedHash) == ToLowerCase(storedHash) = ToLowerCase(computedHash)

verifyRecordIntegrity(storedHash, dateKey, createdAt, note, photos) ==
  SameHash(storedHash, computeRecordHash(dateKey, createdAt, note, photos))

-----------------------------------------------------------------------------
(* The hashing functions applied to records drawn from small sets *)

\* photo descriptors per record
MaxPhotos == 2

DateKeys == { <<"2024-01-01">>, <<"2024-01-02">> }
CreatedAts == { 1000, 1001 }
Notes == { <<>>, <<"n", "\"">> }
PhotoIds == { "a", "b" }
MimeTypes == { "image/jpeg", "image/png" }
Sha256s == { "abc", "def" }
SortIndexes == { 0, 1 }

\* the descriptors a record is first given; every field can be changed later
\* to any other value of its set
PhotoHashes ==
  [id : PhotoIds, mimeType : {"image/jpeg"}, sha256 : Sha256s, sortIndex : SortIndexes]

PhotoLists == UNION { [1..n -> PhotoHashes] : n \in 0..MaxPhotos }

\* String.prototype.toUpperCase on one hex digit
UpperChar(c) ==
  CASE c = "a" -> "A"
    [] c = "b" -> "B"
    [] c = "c" -> "C"
    [] c = "d" -> "D"
    [] c = "e" -> "E"
    [] c = "f" -> "F"
    [] OTHER -> c

ToUpperCase(str) == [i \in 1..Len(str) |-> UpperChar(str[i])]

InitHash ==
  /\ now = 0
  /\ store = [k \in {} |-> {}]
  /\ users = NoUsers
  /\ user = NoSession
  /\ uuids = 0
  /\ classes = Types
  /\ RecordsUntouched
  /\ NoCallsInFlight
  /\ last \in [op : {"input"}, dateKey : DateKeys, createdAt : CreatedAts,
               note : Notes, photos : PhotoLists]

HashStep(record) ==
  /\ last' = record
  /\ UNCHANGED <<now, store, users, user, uuids, classes, recordVars, calls>>

ComputeRecordHashCall ==
  /\ last.op = "input"
  /\ HashStep([op |-> "computeRecordHash", dateKey |-> last.dateKey,
               createdAt |-> last.createdAt, note |-> last.note,
               photos |-> last.photos, changed |-> "nothing",
               hash |-> computeRecordHash(last.dateKey, last.createdAt, last.note,
                                          last.photos)])

\* one field of the record is changed after the hash was computed
ChangeRecordField(field, value) ==
  /\ last.op = "computeRecordHash"
  /\ last[field] # value
  /\ HashStep([last EXCEPT !.op = "changed", ![field] = value, !.changed = field])

\* one field of one photo descriptor is changed after the hash was computed
ChangePhotoField(i, field, value) ==
  /\ last.op = "computeRecordHash"
  /\ i \in 1..Len(last.photos)
  /\ last.photos[i][field] # value
  /\ HashStep([last EXCEPT !.op = "changed", !.photos[i][field] = value,
                           !.changed = field])

\* the record is verified against the hash computed for it, as stored or in
\* upper case
VerifyRecordIntegrityCall(upper) ==
  LET storedHash == IF upper THEN ToUpperCase(last.hash) ELSE last.hash IN
  /\ last.op \in {"computeRecordHash", "changed"}
  /\ HashStep([op |-> "verifyRecordIntegrity", storedHash |-> storedHash,
               dateKey |-> last.dateKey, createdAt |-> last.createdAt,
               note |-> last.note, photos |-> last.photos, changed |-> last.changed,
               hash |-> last.hash,
               out |-> verifyRecordIntegrity(storedHash, last.dateKey, last.createdAt,
                                             last.note, last.photos)])

NextHash ==
  \/ ComputeRecordHashCall
  \/ \E value \in DateKeys : ChangeRecordField("dateKey", value)
  \/ \E value \in CreatedAts : ChangeRecordField("createdAt", value)
  \/ \E value \in Notes : ChangeRecordField("note", value)
  \/ \E i \in 1..MaxPhotos, value \in PhotoIds : ChangePhotoField(i, "id", value)
  \/ \E i \in 1..MaxPhotos, value \in MimeTypes : ChangePhotoField(i, "mimeType", value)
  \/ \E i \in 1..MaxPhotos, value \in Sha256s : ChangePhotoField(i, "sha256", value)
  \/ \E i \in 1..MaxPhotos, value \in SortIndexes : ChangePhotoField(i, "sortIndex", value)
  \/ \E upper \in BOOLEAN : VerifyRecordIntegrityCall(upper)

SpecHash == InitHash /\ [][NextHash]_vars

-----------------------------------------------------------------------------
(* Claims about record hashing *)

\* every order the photos array can be passed in
Reorderings(photos) ==
  { [i \in 1..Len(photos) |-> photos[f[i]]] : f \in Permutations(1..Len(photos)) }

\* no two descriptors of the array share both sortIndex and id
DistinctSortKeys(photos) ==
  \A i, j \in 1..Len(photos) :
    (photos[i].sortIndex = photos[j].sortIndex /\ photos[i].id = photos[j].id) => i = j

-----------------------------------------------------------------------------
(* stableStringify applied to values drawn from small sets *)

\* properties per object
MaxKeys == 2

\* the sequences of up to MaxKeys different keys: the orders of insertion
KeySeqs(keys) ==
  { ks \in UNION { [1..n -> keys] : n \in 0..MaxKeys } :
      \A i, j \in 1..Len(ks) : ks[i] = ks[j] => i = j }

\* the objects with keys out of `keys` and values out of `values`
Objects(keys, values) ==
  UNION { { JsObject([i \in 1..Len(ks) |-> <<ks[i], vs[i]>>]) :
              vs \in [1..Len(ks) -> values] } : ks \in KeySeqs(keys) }

JsNumbers == { JsNumber(1), JsNumber(2) }

JsArrays == { JsArray(<<JsNumber(1), JsNumber(2)>>), JsArray(<<JsNumber(2), JsNumber(1)>>) }

\* objects of numbers, and objects of numbers, arrays and such objects
InnerObjects == Objects({"a", "b"}, JsNumbers)

JsValues == Objects({"a", "b", "c"}, JsNumbers \cup JsArrays \cup InnerObjects) \cup JsArrays

InitStringify ==
  /\ now = 0
  /\ store = [k \in {} |-> {}]
  /\ users = NoUsers
  /\ user = NoSession
  /\ uuids = 0
  /\ classes = Types
  /\ RecordsUntouched
  /\ NoCallsInFlight
  /\ last \in [op : {"input"}, value : JsValues]

StableStringifyCall ==
  /\ last.op = "input"
  /\ last' = [op |-> "stableStringify", value |-> last.value,
              out |-> stableStringify(last.value)]
  /\ UNCHANGED <<now, store, users, user, uuids, classes, recordVars, calls>>

NextStringify == StableStringifyCall

SpecStringify == InitStringify /\ [][NextStringify]_vars

\* the choices of one element out of each set of a sequence of sets
Choices(sets) ==
  { g \in [1..Len(sets) -> UNION { sets[i] : i \in 1..Len(sets) }] :
      \A i \in 1..Len(sets) : g[i] \in sets[i] }

\* the values with the same keys and the same values at every depth: the
\* pairs of every object in any order of insertion
RECURSIVE KeyReorderings(_)
KeyReorderings(x) ==
  CASE x.t = "object" ->
         { JsObject([i \in 1..Len(x.v) |-> <<x.v[f[i]][1], g[f[i]]>>]) :
             f \in Permutations(1..Len(x.v)),
             g \in Choices([i \in 1..Len(x.v) |-> KeyReorderings(x.v[i][2])]) }
    [] x.t = "array" ->
         { JsArray(g) : g \in Choices([i \in 1..Len(x.v) |-> KeyReorderings(x.v[i])]) }
    [] OTHER -> {x}

\* the values that differ only in the order of the elements of their arrays
RECURSIVE ArrayReorderings(_)
ArrayReorderings(x) ==
  CASE x.t = "object" ->
         { JsObject([i \in 1..Len(x.v) |-> <<x.v[i][1], g[i]>>]) :
             g \in Choices([i \in 1..Len(x.v) |-> ArrayReorderings(x.v[i][2])]) }
    [] x.t = "array" ->
         { JsArray([i \in 1..Len(x.v) |-> x.v[f[i]]]) : f \in Permutations(1..Len(x.v)) }
    [] OTHER -> {x}

\* C14: stableStringify returns the same string for the mappings with the same
\* keys and values at every depth whatever the order of insertion, while the
\* elements of arrays are emitted in their original order: another order of
\* the elements gives another string
C14_KeyOrderIgnoredArrayOrderKept ==
  last.op = "stableStringify" =>
    /\ \A y \in KeyReorderings(last.value) : stableStringify(y) = last.out
    /\ \A y \in ArrayReorderings(last.value) :
         y # last.value => stableStringify(y) # last.out

\* an object whose keys were inserted out of order holds an object inserted
\* out of order and an array
C14_Witness ==
  /\ last.op = "stableStringify"
  /\ last.value.t = "object"
  /\ Len(last.value.v) = 2
  /\ last.value.v[1][1] = "c"
  /\ last.value.v[1][2] = JsObject(<< <<"b", JsNumber(2)>>, <<"a", JsNumber(1)>> >>)
  /\ last.value.v[2][1] = "a"
  /\ last.value.v[2][2] = JsArray(<<JsNumber(2), JsNumber(1)>>)
  /\ Cardinality(KeyReorderings(last.value)) = 4

-----------------------------------------------------------------------------
(* Claims about verifyRecordIntegrity, under SpecHash *)

Verified == last.op = "verifyRecordIntegrity"

\* C15: verifyRecordIntegrity(computeRecordHash(d,c,n,p), d, c, n, p) returns
\* true for every dateKey, createdAt, note and photo list, also when the
\* stored hash differs from the computed one only in letter case
C15_HashVerifies ==
  (Verified /\ last.changed = "nothing") => last.out = TRUE

\* an unchanged record with two photos was verified against its hash written
\* in upper case
C15_Witness ==
  /\ Verified
  /\ last.changed = "nothing"
  /\ last.storedHash # last.hash
  /\ ToLowerCase(last.storedHash) = last.hash
  /\ Len(last.photos) = 2
  /\ last.note # <<>>

\* C16: with the digest collision-free, changing exactly one of dateKey,
\* createdAt, note, or one photo's id, mimeType, sha256 or sortIndex after the
\* hash was computed makes verifyRecordIntegrity return false (a boolean)
\* against the original stored hash
C16_ChangeDetected ==
  (Verified /\ last.changed # "nothing") => last.out = FALSE

\* a photo's sha256 was changed after hashing and the record then verified
C16_Witness ==
  /\ Verified
  /\ last.changed = "sha256"
  /\ last.out = FALSE

\* every field the claim names was changed in some verified record
C16_WitnessId == Verified /\ last.changed = "id"
C16_WitnessSortIndex == Verified /\ last.changed = "sortIndex" /\ Len(last.photos) = 2
C16_WitnessNote == Verified /\ last.changed = "note"

-----------------------------------------------------------------------------
(* Record store: db/database.ts.  A row of records is kept under its dateKey;
   photos is the set of its rows.  Photo ids are random UUIDs, so the rows of
   two records never share an id and the model tells them apart by dateKey. *)

\* getTodayDateKey: the day the clock shows in YYYY-MM-DD format
getTodayDateKey(day) == <<"2024-01-0">> \o Digits(day)

getRecord(pdb, dateKey) ==
  IF dateKey \in DOMAIN pdb.records
    THEN [found |-> TRUE, row |-> pdb.records[dateKey]]
    ELSE [found |-> FALSE]

\* SELECT * FROM photos WHERE dateKey = ? ORDER BY sortIndex, id
RECURSIVE OrderBySortIndexId(_)
OrderBySortIndexId(rows) ==
  IF rows = {} THEN <<>>
  ELSE LET first == CHOOSE r \in rows : \A q \in rows : ComparePhotos(r, q) <= 0
       IN <<first>> \o OrderBySortIndexId(rows \ {first})

getPhotos(pdb, dateKey) ==
  OrderBySortIndexId({ r \in pdb.photos : r.dateKey = dateKey })

recordExists(pdb, dateKey) == getRecord(pdb, dateKey).found

\* the column values of a Record object: an absent tags or location is NULL,
\* an absent pinned is the value given for it
RecordRow(record, pinned) ==
  [createdAt |-> record.createdAt,
   note |-> record.note,
   recordHash |-> record.recordHash,
   algo |-> record.algo,
   tags |-> IF "tags" \in DOMAIN record THEN record.tags ELSE NULL,
   location |-> IF "location" \in DOMAIN record THEN record.location ELSE NULL,
   pinned |-> pinned]

\* the statements of a call run one after the other, each committed on its
\* own; failAt is the statement that fails, 0 when none does.  The table
\* after the statements before the failing one, and whether the call threw.
RECURSIVE RunStatements(_, _, _, _)
RunStatements(pdb, statements, k, failAt) ==
  IF k > Len(statements) THEN [threw |-> FALSE, db |-> pdb]
  ELSE IF k = failAt THEN [threw |-> TRUE, db |-> pdb]
  ELSE LET st == statements[k]
           after ==
             CASE st.sql = "INSERT INTO records" ->
                    [pdb EXCEPT !.records =
                       [d \in DOMAIN pdb.records \cup {st.dateKey} |->
                          IF d = st.dateKey THEN st.row ELSE pdb.records[d]]]
               [] st.sql = "UPDATE records" ->
                    IF st.dateKey \in DOMAIN pdb.records
                      THEN [pdb EXCEPT !.records[st.dateKey] = st.row]
                      ELSE pdb
               [] st.sql = "DELETE FROM photos" ->
                    [pdb EXCEPT !.photos = { r \in pdb.photos : r.dateKey # st.dateKey }]
               [] st.sql = "DELETE FROM records" ->
                    [pdb EXCEPT !.records =
                       [d \in DOMAIN pdb.records \ {st.dateKey} |-> pdb.records[d]]]
               [] st.sql = "DELETE FROM photos (all)" ->
                    [pdb EXCEPT !.photos = {}]
               [] st.sql = "DELETE FROM records (all)" ->
                    [pdb EXCEPT !.records = NoRecords.records]
               [] st.sql = "INSERT INTO photos" ->
                    [pdb EXCEPT !.photos = pdb.photos \cup {st.row}]
       IN RunStatements(after, statements, k + 1, failAt)

\* database.runAsync for each statement in turn, with no transaction around them
RunEach(pdb, statements, failAt) == RunStatements(pdb, statements, 1, failAt)

InsertPhotos(photoRows) ==
  [i \in 1..Len(photoRows) |-> [sql |-> "INSERT INTO photos", row |-> photoRows[i]]]

\* insertRecord; the INSERT fails on the PRIMARY KEY when the dateKey is taken
insertRecord(pdb, record, photoRows, failAt) ==
  IF recordExists(pdb, record.dateKey) THEN [threw |-> TRUE, db |-> pdb]
  ELSE RunEach(pdb,
               << [sql |-> "INSERT INTO records", dateKey |-> record.dateKey,
                   row |-> RecordRow(record,
                                     IF "pinned" \in DOMAIN record /\ record.pinned # 0
                                       THEN 1 ELSE 0)] >>
               \o InsertPhotos(photoRows),
               failAt)

\* a record given no pinned value written with pinned 0
updateRecord_PinnedCleared(pdb, record, photoRows, failAt) ==
  LET pinned == IF "pinned" \in DOMAIN record
                  THEN (IF record.pinned # 0 THEN 1 ELSE 0)
                  ELSE 0
  IN RunEach(pdb,
             << [sql |-> "UPDATE records", dateKey |-> record.dateKey,
                 row |-> RecordRow(record, pinned)],
                [sql |-> "DELETE FROM photos", dateKey |-> record.dateKey] >>
             \o InsertPhotos(photoRows),
             failAt)

updateRecord(pdb, record, photoRows, failAt) ==
  LET existingRecord == getRecord(pdb, record.dateKey)
      pinned == IF "pinned" \in DOMAIN record
                  THEN (IF record.pinned # 0 THEN 1 ELSE 0)
                  ELSE (IF existingRecord.found /\ existingRecord.row.pinned # 0
                          THEN 1 ELSE 0)
  IN RunEach(pdb,
             << [sql |-> "UPDATE records", dateKey |-> record.dateKey,
                 row |-> RecordRow(record, pinned)],
                [sql |-> "DELETE FROM photos", dateKey |-> record.dateKey] >>
             \o InsertPhotos(photoRows),
             failAt)

\* the photo rows of the record left in place
deleteRecord_RecordOnly(pdb, dateKey, failAt) ==
  RunEach(pdb, << [sql |-> "DELETE FROM records", dateKey |-> dateKey] >>, failAt)

\* deleteRecord: the photo rows first, then the record row
deleteRecord(pdb, dateKey, failAt) ==
  RunEach(pdb,
          << [sql |-> "DELETE FROM photos", dateKey |-> dateKey],
             [sql |-> "DELETE FROM records", dateKey |-> dateKey] >>,
          failAt)

\* deleteAllRecords: all photo rows first, then all record rows
deleteAllRecords(pdb, failAt) ==
  RunEach(pdb,
          << [sql |-> "DELETE FROM photos (all)"],
             [sql |-> "DELETE FROM records (all)"] >>,
          failAt)

\* togglePinnedRecord: whether it threw, and the table it leaves
togglePinnedRecord(pdb, dateKey) ==
  LET record == getRecord(pdb, dateKey) IN
  IF ~record.found THEN [threw |-> TRUE, db |-> pdb]
  ELSE [threw |-> FALSE,
        db |-> [pdb EXCEPT !.records[dateKey].pinned =
                             IF record.row.pinned = 1 THEN 0 ELSE 1]]

-----------------------------------------------------------------------------
(* The screens that write records: LogTodayScreen, DayDetailScreen, and the
   settings row "Clear All Data".  One screen is mounted at a time. *)

\* calendar days the clock goes through
MaxDay == 2

\* what the user may type and pick on LogTodayScreen
DraftNotes == { <<>>, <<"n">> }
DraftPhotos == { <<>>, <<"a">>, <<"b", "a">> }
DraftTags == { NULL, <<"t">> }

\* copyPhotoToAppStorage: the SHA-256 of the picked file, and where it was copied
PickedSha256(id) == IF id = "a" THEN "abc" ELSE "def"
PickedFileUri(id) == IF id = "a" THEN "a.jpg" ELSE "b.jpg"

\* Date.now() during the day, in the units of createdAt
TimestampOn(day) == 1000 + day

\* LogTodayScreen's render: todayDateKey and isEditMode from the route
\* parameters and the clock
LogTodayRender(editMode, editDateKey, day, note, photos, tags) ==
  LET todayDateKey == IF editDateKey # NULL THEN editDateKey ELSE getTodayDateKey(day) IN
  [name |-> "LogToday", editMode |-> editMode, editDateKey |-> editDateKey,
   todayDateKey |-> todayDateKey,
   isEditMode |-> editMode /\ editDateKey = todayDateKey,
   note |-> note, photos |-> photos, tags |-> tags]

\* DayDetailScreen's render: isToday from the route parameter and the clock
DayDetailRender(dateKey, day) ==
  [name |-> "DayDetail", dateKey |-> dateKey, isToday |-> dateKey = getTodayDateKey(day)]

\* LogTodayScreen's focus effect (loadExistingData), run for a render
LogTodayFocus(pdb, scr, day) ==
  LET existingRecord == getRecord(pdb, scr.todayDateKey)
      existingPhotos == getPhotos(pdb, scr.todayDateKey)
  IN
  IF scr.isEditMode
    THEN IF existingRecord.found
           THEN [scr EXCEPT !.note = existingRecord.row.note,
                            !.photos = [i \in 1..Len(existingPhotos) |-> existingPhotos[i].id],
                            !.tags = existingRecord.row.tags]
           ELSE scr
  ELSE IF recordExists(pdb, scr.todayDateKey)
    THEN DayDetailRender(scr.todayDateKey, day)
  ELSE scr

\* DayDetailScreen's loadRecord: a missing record sends the user back
DayDetailLoad(pdb, scr) ==
  IF getRecord(pdb, scr.dateKey).found THEN scr ELSE HomeScreen

\* the photo rows handleSave builds: an existing photo keeps its stored
\* mimeType, sha256 and fileUri, a new one is copied and hashed
PhotoRowsToSave(pdb, scr) ==
  LET existingPhotos == getPhotos(pdb, scr.todayDateKey)
      Existing(id) == { i \in 1..Len(existingPhotos) : existingPhotos[i].id = id }
  IN
  [index \in 1..Len(scr.photos) |->
     LET id == scr.photos[index] IN
     IF scr.isEditMode /\ Existing(id) # {}
       THEN LET existingPhoto == existingPhotos[CHOOSE i \in Existing(id) : TRUE] IN
            [id |-> id, dateKey |-> scr.todayDateKey, fileUri |-> existingPhoto.fileUri,
             mimeType |-> existingPhoto.mimeType, sha256 |-> existingPhoto.sha256,
             sortIndex |-> index - 1]
       ELSE [id |-> id, dateKey |-> scr.todayDateKey, fileUri |-> PickedFileUri(id),
             mimeType |-> "image/jpeg", sha256 |-> PickedSha256(id),
             sortIndex |-> index - 1]]

\* ({ id, mimeType, sha256, sortIndex }) of each row
CanonicalPhotos(photoRows) ==
  [i \in 1..Len(photoRows) |->
     [id |-> photoRows[i].id, mimeType |-> photoRows[i].mimeType,
      sha256 |-> photoRows[i].sha256, sortIndex |-> photoRows[i].sortIndex]]

\* the Record object handleSave passes to updateRecord or insertRecord: the
\* hash is computed over `note`, the row is given note.trim()
RecordToSave(pdb, scr, day) ==
  LET existingRecord == getRecord(pdb, scr.todayDateKey)
      photoHashes == PhotoRowsToSave(pdb, scr)
      createdAt == IF scr.isEditMode THEN existingRecord.row.createdAt ELSE TimestampOn(day)
  IN [dateKey |-> scr.todayDateKey,
      createdAt |-> createdAt,
      note |-> Trim(scr.note),
      recordHash |-> computeRecordHash(scr.todayDateKey, createdAt, scr.note,
                                       CanonicalPhotos(photoHashes)),
      algo |-> "SHA-256",
      tags |-> scr.tags]

\* handleSave: the database call it made, whether that threw, the tables and
\* the screen it leaves
handleSave(pdb, scr, day, failAt) ==
  LET existingRecord == getRecord(pdb, scr.todayDateKey)
      photoHashes == PhotoRowsToSave(pdb, scr)
      record == RecordToSave(pdb, scr, day)
      updated == updateRecord(pdb, record, photoHashes, failAt)
      inserted == insertRecord(pdb, record, photoHashes, failAt)
  IN
  IF Trim(scr.note) = <<>> /\ scr.photos = <<>>
    THEN [call |-> "none", threw |-> FALSE, db |-> pdb, screen |-> scr]
  ELSE IF scr.isEditMode
    THEN IF ~existingRecord.found
           THEN [call |-> "none", threw |-> FALSE, db |-> pdb, screen |-> scr]
           ELSE [call |-> "updateRecord", threw |-> updated.threw, db |-> updated.db,
                 screen |-> IF updated.threw THEN scr ELSE HomeScreen]
  ELSE IF recordExists(pdb, scr.todayDateKey)
    THEN [call |-> "none", threw |-> FALSE, db |-> pdb,
          screen |-> DayDetailRender(scr.todayDateKey, day)]
  ELSE [call |-> "insertRecord", threw |-> inserted.threw, db |-> inserted.db,
        screen |-> IF inserted.threw THEN scr
                   ELSE DayDetailLoad(inserted.db, DayDetailRender(scr.todayDateKey, day))]

-----------------------------------------------------------------------------
(* What the user does on these screens, one step at a time, while the
   calendar date advances *)

InitRecords ==
  /\ now = 0
  /\ store = [k \in {} |-> {}]
  /\ users = NoUsers
  /\ user = NoSession
  /\ uuids = 0
  /\ classes = Types
  /\ RecordsUntouched
  /\ NoCallsInFlight
  /\ last = [op |-> "init"]

\* the tables and the screen a step leaves, and the record of the step
RecordStep(op, call, threw, pdb, scr) ==
  /\ proofDb' = pdb
  /\ screen' = scr
  /\ last' = [op |-> op, call |-> call, threw |-> threw]
  /\ UNCHANGED <<now, store, users, user, uuids, classes, today, calls>>

\* midnight passes; nothing re-renders because of it
AdvanceDate ==
  /\ today < MaxDay
  /\ today' = today + 1
  /\ last' = [op |-> "advanceDate", call |-> "none", threw |-> FALSE]
  /\ UNCHANGED <<now, store, users, user, uuids, classes, proofDb, screen, calls>>

\* navigation.navigate("LogToday", {})
NavigateLogToday ==
  /\ screen = HomeScreen
  /\ RecordStep("navigateLogToday", "none", FALSE, proofDb,
                LogTodayFocus(proofDb, LogTodayRender(FALSE, NULL, today, <<>>, <<>>, NULL),
                              today))

\* handleDayPress on a logged day: navigation.navigate("DayDetail", { dateKey })
NavigateDayDetail(dateKey) ==
  /\ screen = HomeScreen
  /\ recordExists(proofDb, dateKey)
  /\ RecordStep("navigateDayDetail", "none", FALSE, proofDb,
                DayDetailLoad(proofDb, DayDetailRender(dateKey, today)))

\* the mounted screen renders again with the state it is given; the focus
\* effect of LogTodayScreen runs again when todayDateKey has changed
Rendered(note, photos, tags) ==
  IF screen.name = "LogToday"
    THEN LET r == LogTodayRender(screen.editMode, screen.editDateKey, today,
                                 note, photos, tags)
         IN IF r.todayDateKey # screen.todayDateKey
              THEN LogTodayFocus(proofDb, r, today) ELSE r
    ELSE DayDetailRender(screen.dateKey, today)

\* a state change that keeps the drafts, such as showing the hash
Rerender ==
  /\ screen.name \in {"LogToday", "DayDetail"}
  /\ RecordStep("rerender", "none", FALSE, proofDb,
                IF screen.name = "LogToday"
                  THEN Rendered(screen.note, screen.photos, screen.tags)
                  ELSE Rendered(<<>>, <<>>, NULL))

\* setNote, setPhotos, setTags
EditDraft(note, photos, tags) ==
  /\ screen.name = "LogToday"
  /\ RecordStep("editDraft", "none", FALSE, proofDb, Rendered(note, photos, tags))

HandleSave(failAt) ==
  LET r == handleSave(proofDb, screen, today, failAt) IN
  /\ screen.name = "LogToday"
  /\ RecordStep("handleSave", r.call, r.threw, r.db, r.screen)

\* the Edit button is rendered when isToday
HandleEdit ==
  /\ screen.name = "DayDetail"
  /\ screen.isToday
  /\ RecordStep("handleEdit", "none", FALSE, proofDb,
                LogTodayFocus(proofDb,
                              LogTodayRender(TRUE, screen.dateKey, today, <<>>, <<>>, NULL),
                              today))

\* the Delete button is rendered when isToday; the user confirms the alert.
\* A deleteRecord that throws leaves the screen open.
HandleDelete(failAt) ==
  LET r == deleteRecord(proofDb, screen.dateKey, failAt) IN
  /\ screen.name = "DayDetail"
  /\ screen.isToday
  /\ proofDb' = r.db
  /\ screen' = IF r.threw THEN screen ELSE HomeScreen
  /\ last' = [op |-> "handleDelete", call |-> "deleteRecord", threw |-> r.threw,
              dateKey |-> screen.dateKey,
              photoRows |-> Cardinality({ p \in proofDb.photos : p.dateKey = screen.dateKey })]
  /\ UNCHANGED <<now, store, users, user, uuids, classes, today, calls>>

\* Settings, "Clear All Data", both alerts confirmed
HandleClearAllData(failAt) ==
  LET r == deleteAllRecords(proofDb, failAt) IN
  /\ screen = HomeScreen
  /\ RecordStep("handleClearAllData", "deleteAllRecords", r.threw, r.db, HomeScreen)

TogglePinnedRecordCall(dateKey) ==
  LET r == togglePinnedRecord(proofDb, dateKey) IN
  /\ recordExists(proofDb, dateKey)
  /\ RecordStep("togglePinnedRecord", "togglePinnedRecord", r.threw, r.db, screen)

GoBack ==
  /\ screen # HomeScreen
  /\ RecordStep("goBack", "none", FALSE, proofDb, HomeScreen)

DateKeysOfModel == { getTodayDateKey(day) : day \in 1..MaxDay }

\* the statement of a call that fails: none, or any of the statements of a
\* call with two photos
FailAts == 0..4

NextRecordsWith(failAts) ==
  \/ AdvanceDate
  \/ NavigateLogToday
  \/ \E dateKey \in DateKeysOfModel : NavigateDayDetail(dateKey)
  \/ Rerender
  \/ \E note \in DraftNotes, photos \in DraftPhotos, tags \in DraftTags :
       EditDraft(note, photos, tags)
  \/ \E failAt \in failAts : HandleSave(failAt)
  \/ HandleEdit
  \/ \E failAt \in failAts : HandleDelete(failAt)
  \/ \E failAt \in failAts : HandleClearAllData(failAt)
  \/ \E dateKey \in DateKeysOfModel : TogglePinnedRecordCall(dateKey)
  \/ GoBack

\* every statement succeeds
NextRecords == NextRecordsWith({0})

SpecRecords == InitRecords /\ [][NextRecords]_vars

\* creating, editing and deleting today's record when a statement of the
\* database call may fail
NextRecordsFailing ==
  \/ NavigateLogToday
  \/ \E dateKey \in DateKeysOfModel : NavigateDayDetail(dateKey)
  \/ \E note \in DraftNotes, photos \in DraftPhotos, tags \in DraftTags :
       EditDraft(note, photos, tags)
  \/ \E failAt \in FailAts : HandleSave(failAt)
  \/ HandleEdit
  \/ \E failAt \in FailAts : HandleDelete(failAt)
  \/ \E failAt \in FailAts : HandleClearAllData(failAt)
  \/ GoBack

SpecRecordsFailing == InitRecords /\ [][NextRecordsFailing]_vars

-----------------------------------------------------------------------------
(* Claims about persisted records *)

\* the day a dateKey names
DayOf(dateKey) == CHOOSE day \in 1..MaxDay : getTodayDateKey(day) = dateKey

PhotosOf(pdb, dateKey) == { r \in pdb.photos : r.dateKey = dateKey }

\* a record that is not today's keeps every field but pinned, and its photos
PastRecordsKept ==
  \A d \in DOMAIN proofDb.records :
    (d # getTodayDateKey(today) /\ d \in DOMAIN proofDb'.records) =>
      /\ [proofDb'.records[d] EXCEPT !.pinned = 0] = [proofDb.records[d] EXCEPT !.pinned = 0]
      /\ PhotosOf(proofDb', d) = PhotosOf(proofDb, d)

\* C17: whatever the user does (create, open detail, edit, save, pin toggle)
\* while the calendar date advances, a persisted record whose dateKey is not
\* the current date keeps its createdAt, note, recordHash, algo, tags,
\* location and photos; only pinned may change
C17_PastRecordsImmutable == [][PastRecordsKept]_vars

\* a record of an earlier day stays in the table
EarlierRecordsStay ==
  \A d \in DOMAIN proofDb.records :
    DayOf(d) < today => d \in DOMAIN proofDb'.records

\* C18: a record whose dateKey is earlier than the current date is never
\* removed from the record store by any operation the application offers
C18_PastRecordsNeverRemoved == [][EarlierRecordsStay]_vars

\* the same with "Clear All Data" left aside: the Delete button of a
\* DayDetailScreen rendered before midnight still removes the record
C18_NeverRemovedByDelete ==
  [][last'.op # "handleClearAllData" => EarlierRecordsStay]_vars

\* the stored hash of every record is the hash of its row and its photo rows
HashMatchesPhotos ==
  \A d \in DOMAIN proofDb.records :
    LET row == proofDb.records[d] IN
    verifyRecordIntegrity(row.recordHash, d, row.createdAt, row.note,
                          CanonicalPhotos(getPhotos(proofDb, d)))

\* a call of insertRecord or updateRecord that threw left both tables as they were
FailedCallChangedNothing ==
  (last'.call \in {"insertRecord", "updateRecord"} /\ last'.threw) => proofDb' = proofDb

\* C19: insertRecord and updateRecord are atomic with respect to failure: a
\* failed statement leaves the record row and its photo rows as before the
\* call, so no record's stored hash was computed over a photo set different
\* from the photo rows stored for it
C19_WritesAtomic == [][FailedCallChangedNothing]_vars /\ []HashMatchesPhotos

\* every photo row belongs to a record row
PhotosOwned ==
  \A p \in proofDb.photos : p.dateKey \in DOMAIN proofDb.records

\* a deleteRecord that returned left no photo row of its dateKey
DeleteLeavesNoPhotos ==
  (last'.call = "deleteRecord" /\ ~last'.threw) => PhotosOf(proofDb', last'.dateKey) = {}

\* C21: a record exclusively owns its photos: in every state that insertRecord,
\* updateRecord, deleteRecord and deleteAllRecords go through, a failed
\* statement included, every photo row's dateKey is that of an existing
\* record row, and after deleteRecord(dateKey) returns no photo row with that
\* dateKey remains
C21_RecordOwnsPhotos == []PhotosOwned /\ [][DeleteLeavesNoPhotos]_vars

\* a record with photo rows was deleted
C21_Witness ==
  /\ last.op = "handleDelete"
  /\ ~last.threw
  /\ last.photoRows > 0
  /\ PhotosOf(proofDb, last.dateKey) = {}

\* insertRecord stopped after the first of two photo rows
C21_WitnessMidway ==
  /\ last.op = "handleSave"
  /\ last.call = "insertRecord"
  /\ last.threw
  /\ Cardinality(proofDb.photos) = 1

-----------------------------------------------------------------------------
(* checkRateLimit calls that overlap.  A call runs until it awaits
   SecureStore: it takes `now` and reads its entry, and when it is resumed it
   decides on the entry it read, writes and returns.  Another call can run
   in between. *)

\* the identifier both callers use
RaceIdentifier == <<"u">>

\* the store with the entry under key k as the call read it
LoadedView_ReadAgain(st, k, got) == st

\* the store as the call saw it when it read the entry under key k: the
\* decision and the entry written are computed from that value
LoadedView(st, k, got) ==
  IF got.found
    THEN [x \in DOMAIN st \cup {k} |-> IF x = k THEN got.entry ELSE st[x]]
    ELSE [x \in DOMAIN st \ {k} |-> st[x]]

InitRace ==
  /\ now = 0
  /\ store = [k \in {} |-> {}]
  /\ users = NoUsers
  /\ user = NoSession
  /\ uuids = 0
  /\ classes \in { {type} : type \in Types }
  /\ RecordsUntouched
  /\ NoCallsInFlight
  /\ last = [op |-> "init"]

RaceStep(op, p) ==
  /\ last' = [op |-> op, caller |-> p]
  /\ UNCHANGED <<now, authVars, classes, recordVars>>

\* const now = Date.now(); const entry = await getRateLimitEntry(key)
LoadEntry(p, type) ==
  /\ calls[p].pc = "idle"
  /\ calls' = [calls EXCEPT ![p] =
                 [pc |-> "loaded", type |-> type, at |-> now,
                  got |-> getRateLimitEntry(store, RateLimitKey(RaceIdentifier, type), TRUE)]]
  /\ UNCHANGED store
  /\ RaceStep("load", p)

\* the rest of checkRateLimit on the entry that was read: the branch taken,
\* the write to SecureStore as it is now, and the returned object
PersistEntry(p) ==
  LET c == calls[p]
      k == StorageKey(RateLimitKey(RaceIdentifier, c.type))
      view == LoadedView(store, k, c.got)
      r == checkRateLimit(view, RaceIdentifier, c.type, c.at, TRUE, TRUE)
      wrote == r.store # view
  IN
  /\ c.pc = "loaded"
  /\ store' = IF wrote THEN setItemAsync(store, k, r.store[k], TRUE).store ELSE store
  /\ calls' = [calls EXCEPT ![p] =
                 [pc |-> "returned", type |-> c.type, at |-> c.at, got |-> c.got,
                  result |-> r.result]]
  /\ RaceStep("persist", p)

\* the caller is free to call again
CallAgain(p) ==
  /\ calls[p].pc = "returned"
  /\ calls' = [calls EXCEPT ![p] = [pc |-> "idle"]]
  /\ UNCHANGED store
  /\ RaceStep("again", p)

RaceTick ==
  /\ now + AuthTickStep <= MaxAuthTime
  /\ now' = now + AuthTickStep
  /\ last' = [op |-> "tick"]
  /\ UNCHANGED <<store, authVars, classes, recordVars, calls>>

NextRace ==
  \/ RaceTick
  \/ \E p \in Callers, type \in classes : LoadEntry(p, type)
  \/ \E p \in Callers : PersistEntry(p)
  \/ \E p \in Callers : CallAgain(p)

SpecRace == InitRace /\ [][NextRace]_vars

\* both calls have returned, and both had read the same entry
BothReadTheSame ==
  /\ \A p \in Callers : calls[p].pc = "returned"
  /\ calls[1].got = calls[2].got

\* the attempts of the entry the calls read: none when there was no entry
AttemptsRead == IF calls[1].got.found THEN calls[1].got.entry.attempts ELSE 0

\* the entry a call read lets it through and is counted up: no entry, or an
\* unlocked entry inside its window with room for one more attempt
CountedUp(c) ==
  \/ ~c.got.found
  \/ /\ ~IsLocked(c.got.entry)
     /\ ~WindowExpired(c.got.entry, c.at, RATE_LIMIT_CONFIG[c.type])
     /\ ~MaxAttemptsReached(c.got.entry.attempts + 1, RATE_LIMIT_CONFIG[c.type])

\* C20: the load-mutate-persist cycle of checkRateLimit is not atomic: two
\* calls for the same (class, identifier) that interleave between the load
\* and the persist both read the same entry and both return allowed, and
\* attempts is left increased by one instead of two
C20_OverlappingCallsCountOnce ==
  (BothReadTheSame /\ \A p \in Callers : CountedUp(calls[p])) =>
    /\ \A p \in Callers : calls[p].result.allowed
    /\ Stored(store, RaceIdentifier, calls[1].type).found
    /\ Stored(store, RaceIdentifier, calls[1].type).entry.attempts = AttemptsRead + 1

\* two calls read the same stored entry, both were allowed, and the entry
\* holds one attempt more than they read
C20_Witness ==
  /\ BothReadTheSame
  /\ calls[1].got.found
  /\ \A p \in Callers : calls[p].result.allowed
  /\ Stored(store, RaceIdentifier, calls[1].type).entry.attempts = AttemptsRead + 1

-----------------------------------------------------------------------------
(* LogTodayScreen's handlers as the asynchronous functions they are: a handler
   keeps the note and the photos of the render it was started from while it
   awaits the image picker or the database *)

\* "You can add up to 3 photos per proof."
MaxPhotosPerProof == 3

\* ids Crypto.randomUUID hands out while drafts are edited
MaxPicks == 4

\* the id randomUUID gives as its n-th: never one it gave before
RandomUUID(n) == Collation[n]

\* the limit tested one photo later
PhotoLimitReached_OneMore(photos) == Len(photos) >= MaxPhotosPerProof + 1

\* photos.length >= 3
PhotoLimitReached(photos) == Len(photos) >= MaxPhotosPerProof

InitDraft ==
  /\ now = 0
  /\ store = [k \in {} |-> {}]
  /\ users = NoUsers
  /\ user = NoSession
  /\ uuids = 0
  /\ classes = Types
  /\ RecordsUntouched
  /\ NoCallsInFlight
  /\ last = [op |-> "init"]

\* what a step of an asynchronous handler leaves alone
DraftStep(op, call, threw, existed) ==
  /\ last' = [op |-> op, call |-> call, threw |-> threw, existed |-> existed]
  /\ UNCHANGED <<now, store, users, user, classes, today>>

\* handleTakePhoto and handleChooseFromLibrary up to the picker: at the limit
\* an alert is shown, below it the picker opens
HandleTakePhoto(p) ==
  /\ screen.name = "LogToday"
  /\ calls[p].pc = "idle"
  /\ calls' = IF PhotoLimitReached(screen.photos) THEN calls
              ELSE [calls EXCEPT ![p] = [pc |-> "picking", photos |-> screen.photos]]
  /\ UNCHANGED <<proofDb, screen, uuids>>
  /\ DraftStep("handleTakePhoto", "none", FALSE, FALSE)

\* the picker returns: setPhotos([...photos, { uri, id }]) with the photos of
\* the render the handler was started from; nothing when the user canceled
\* or the screen is gone
PickerReturned(p, canceled) ==
  LET added == calls[p].photos \o <<RandomUUID(uuids + 1)>> IN
  /\ calls[p].pc = "picking"
  /\ calls' = [calls EXCEPT ![p] = [pc |-> "idle"]]
  /\ IF canceled \/ screen.name # "LogToday"
       THEN UNCHANGED <<screen, uuids>>
       ELSE /\ uuids < MaxPicks
            /\ uuids' = uuids + 1
            /\ screen' = Rendered(screen.note, added, screen.tags)
  /\ UNCHANGED proofDb
  /\ DraftStep("pickerReturned", "none", FALSE, FALSE)

\* the screen is opened when no picker of an earlier instance is still open
OpenLogToday ==
  /\ \A p \in Callers : calls[p].pc # "picking"
  /\ NavigateLogToday

\* handleSave of a new entry up to its first await: canSave, setSaving(true)
HandleSaveTapped(p) ==
  /\ screen.name = "LogToday"
  /\ ~screen.isEditMode
  /\ ~(Trim(screen.note) = <<>> /\ screen.photos = <<>>)
  /\ calls[p].pc = "idle"
  /\ calls' = [calls EXCEPT ![p] = [pc |-> "saving", scr |-> screen]]
  /\ UNCHANGED <<proofDb, screen, uuids>>
  /\ DraftStep("handleSaveTapped", "none", FALSE, FALSE)

\* const exists = await recordExists(todayDateKey): an existing record sends
\* the user to its DayDetailScreen and nothing is written
HandleSaveChecked(p) ==
  LET c == calls[p]
      exists == recordExists(proofDb, c.scr.todayDateKey)
  IN
  /\ c.pc = "saving"
  /\ calls' = [calls EXCEPT ![p] =
                 IF exists THEN [pc |-> "idle"] ELSE [pc |-> "checked", scr |-> c.scr]]
  /\ screen' = IF exists
                 THEN DayDetailLoad(proofDb, DayDetailRender(c.scr.todayDateKey, today))
                 ELSE screen
  /\ UNCHANGED <<proofDb, uuids>>
  /\ DraftStep(IF exists THEN "handleSave" ELSE "recordExists", "none", FALSE, exists)

\* the rest of the create path: the photos are copied and hashed, the record
\* hash is computed and insertRecord is called
HandleSaveInserted(p) ==
  LET c == calls[p]
      r == insertRecord(proofDb, RecordToSave(proofDb, c.scr, today),
                        PhotoRowsToSave(proofDb, c.scr), 0)
  IN
  /\ c.pc = "checked"
  /\ calls' = [calls EXCEPT ![p] = [pc |-> "idle"]]
  /\ proofDb' = r.db
  /\ screen' = IF r.threw THEN screen
               ELSE DayDetailLoad(r.db, DayDetailRender(c.scr.todayDateKey, today))
  /\ UNCHANGED uuids
  /\ DraftStep("handleSave", "insertRecord", r.threw,
               recordExists(proofDb, c.scr.todayDateKey))

\* handleSave in edit mode, in one step
HandleSaveEdited ==
  /\ screen.name = "LogToday"
  /\ screen.isEditMode
  /\ HandleSave(0)

NextDraft ==
  \/ OpenLogToday
  \/ \E p \in Callers : HandleTakePhoto(p)
  \/ \E p \in Callers, canceled \in BOOLEAN : PickerReturned(p, canceled)
  \/ \E p \in Callers : HandleSaveTapped(p)
  \/ \E p \in Callers : HandleSaveChecked(p)
  \/ \E p \in Callers : HandleSaveInserted(p)
  \/ HandleSaveEdited
  \/ HandleEdit
  \/ GoBack

SpecDraft == InitDraft /\ [][NextDraft]_vars

\* no record has more than three photo rows
AtMostThreePhotos ==
  \A d \in DOMAIN proofDb.records :
    Cardinality(PhotosOf(proofDb, d)) <= MaxPhotosPerProof

\* a save of a new entry that found, or ran into, a record of its dateKey
SavedOverExisting ==
  /\ last'.op = "handleSave"
  /\ "existed" \in DOMAIN last'
  /\ last'.existed

\* C22: every persisted record has at most 3 photos, and a dateKey has at most
\* one record: saving a new entry when a record for that dateKey already
\* exists leaves that record, and its photo rows, unchanged
C22_ThreePhotosOneRecord ==
  []AtMostThreePhotos /\ [][SavedOverExisting => proofDb' = proofDb]_vars

\* a record with three photos was saved, and a second save of a new entry for
\* its dateKey ran into it
C22_Witness ==
  /\ last.op = "handleSave"
  /\ "existed" \in DOMAIN last
  /\ last.existed
  /\ \E d \in DOMAIN proofDb.records :
       Cardinality(PhotosOf(proofDb, d)) = MaxPhotosPerProof

\* the second save reached insertRecord, which threw on the PRIMARY KEY
C22_WitnessInsertThrew ==
  /\ last.op = "handleSave"
  /\ "existed" \in DOMAIN last
  /\ last.existed
  /\ last.call = "insertRecord"
  /\ last.threw

-----------------------------------------------------------------------------
(* Claims about the window of the rate limiter, under Spec *)

\* the last call found an entry without lockedUntil
FoundUnlocked ==
  /\ LastCheck
  /\ last.before.found
  /\ ~IsLocked(last.before.entry)

\* C23: for an unlocked entry, a checkRateLimit call made when
\* now - firstAttempt > windowMs replaces it by a fresh window (attempts 1,
\* firstAttempt = now) and returns allowed with remainingAttempts =
\* maxAttempts - 1; a call made when now - firstAttempt <= windowMs adds one to
\* attempts and keeps firstAttempt
C23_WindowRestartsOrCounts ==
  FoundUnlocked =>
    LET entry == last.before.entry
        config == RATE_LIMIT_CONFIG[last.type]
    IN IF last.at - entry.firstAttempt > config.windowMs
         THEN /\ StoredNow.found
              /\ StoredNow.entry = [attempts |-> 1, firstAttempt |-> last.at]
              /\ Allowed(last.out, config.maxAttempts - 1)
         ELSE /\ StoredNow.found
              /\ StoredNow.entry.attempts = entry.attempts + 1
              /\ StoredNow.entry.firstAttempt = entry.firstAttempt

\* a call found an unlocked entry with more than one attempt whose window had
\* elapsed, and started a fresh window
C23_Witness ==
  /\ FoundUnlocked
  /\ last.before.entry.attempts > 1
  /\ last.at - last.before.entry.firstAttempt > RATE_LIMIT_CONFIG[last.type].windowMs
  /\ StoredNow.entry = [attempts |-> 1, firstAttempt |-> last.at]

\* a call made exactly windowMs after firstAttempt was counted in the window
C23_WitnessAtWindowMs ==
  /\ FoundUnlocked
  /\ last.at - last.before.entry.firstAttempt = RATE_LIMIT_CONFIG[last.type].windowMs
  /\ StoredNow.entry.attempts = last.before.entry.attempts + 1
  /\ StoredNow.entry.firstAttempt = last.before.entry.firstAttempt

-----------------------------------------------------------------------------
(* Saving and reading back notes typed with blanks around them *)

\* notes the user may type: with a trailing blank, as a keyboard leaves after
\* a word, and with a leading one
TypedNotes == { <<"n">>, <<"n", " ">>, <<" ", "n">> }

\* DayDetailScreen's loadRecord: integrityVerified of the record it shows
IntegrityVerified(pdb, dateKey) ==
  LET loadedRecord == getRecord(pdb, dateKey).row
      loadedPhotos == getPhotos(pdb, dateKey)
  IN verifyRecordIntegrity(loadedRecord.recordHash, dateKey, loadedRecord.createdAt,
                           loadedRecord.note, CanonicalPhotos(loadedPhotos))

NextNotes ==
  \/ NavigateLogToday
  \/ \E dateKey \in DateKeysOfModel : NavigateDayDetail(dateKey)
  \/ \E note \in TypedNotes, photos \in DraftPhotos : EditDraft(note, photos, NULL)
  \/ HandleSave(0)
  \/ HandleEdit
  \/ GoBack

SpecNotes == InitRecords /\ [][NextNotes]_vars

\* the last step was a save that wrote a record
Saved ==
  /\ last.op = "handleSave"
  /\ last.call \in {"insertRecord", "updateRecord"}
  /\ ~last.threw

\* C24: every record written by the save operation (create or edit of today's
\* entry) verifies on read-back: the stored recordHash is computeRecordHash of
\* the stored dateKey, createdAt, note and photo rows, whatever note was
\* typed, a note with leading or trailing blanks included
C24_SavedRecordsVerify ==
  Saved => \A d \in DOMAIN proofDb.records : IntegrityVerified(proofDb, d)

-----------------------------------------------------------------------------
(* Editing and pinning records while the calendar date advances *)

\* drafts with no photo or one
NextPinned ==
  \/ AdvanceDate
  \/ NavigateLogToday
  \/ \E dateKey \in DateKeysOfModel : NavigateDayDetail(dateKey)
  \/ \E note \in DraftNotes, photos \in { <<>>, <<"a">> } : EditDraft(note, photos, NULL)
  \/ HandleSave(0)
  \/ HandleEdit
  \/ \E dateKey \in DateKeysOfModel : TogglePinnedRecordCall(dateKey)
  \/ GoBack

SpecPinned == InitRecords /\ [][NextPinned]_vars

\* an edit that was saved kept the createdAt and the pinned flag of its record
EditKeepsCreatedAtAndPinned ==
  (last'.op = "handleSave" /\ last'.call = "updateRecord" /\ ~last'.threw) =>
    LET d == screen.todayDateKey IN
    /\ proofDb'.records[d].createdAt = proofDb.records[d].createdAt
    /\ proofDb'.records[d].pinned = proofDb.records[d].pinned

\* togglePinnedRecord left every column but pinned, every photo row and the
\* outcome of the integrity verification of every record as they were
ToggleChangesPinnedOnly ==
  last'.op = "togglePinnedRecord" =>
    /\ DOMAIN proofDb'.records = DOMAIN proofDb.records
    /\ proofDb'.photos = proofDb.photos
    /\ \A d \in DOMAIN proofDb.records :
         /\ [proofDb'.records[d] EXCEPT !.pinned = 0] = [proofDb.records[d] EXCEPT !.pinned = 0]
         /\ IntegrityVerified(proofDb', d) = IntegrityVerified(proofDb, d)
    /\ proofDb' # proofDb

\* C25: editing today's record keeps the record's original createdAt and, as
\* the edit supplies no pinned value, its pinned flag; togglePinnedRecord
\* changes only pinned, so the outcome of verifyRecordIntegrity for the record
\* stays what it was
C25_EditAndPinKeepTheRest ==
  [][EditKeepsCreatedAtAndPinned /\ ToggleChangesPinnedOnly]_vars

\* a pinned record was edited and saved
C25_Witness ==
  /\ last.op = "handleSave"
  /\ last.call = "updateRecord"
  /\ ~last.threw
  /\ \E d \in DOMAIN proofDb.records : proofDb.records[d].pinned = 1

\* a record was pinned
C25_WitnessToggled ==
  /\ last.op = "togglePinnedRecord"
  /\ \E d \in DOMAIN proofDb.records : proofDb.records[d].pinned = 1

-----------------------------------------------------------------------------
(* Logins to a verified account, with the times of the failed ones kept *)

\* the account of the model: signed up, and verified with the PIN it was sent
LoginEmail == <<"U">>
LoginPassword == <<"p">>

VerifiedAccount ==
  verifyEmail(createUser(NoUsers, LoginEmail, LoginPassword, <<"1">>, 0, 1),
              LoginEmail, <<"1">>, 0).db

\* failed logins that are remembered: one more than the claim counts
MaxFailedKept == 6

InitLogin ==
  /\ now = 0
  /\ store = [k \in {} |-> {}]
  /\ users = VerifiedAccount
  /\ user = NoSession
  /\ uuids = 1
  /\ classes = Types
  /\ RecordsUntouched
  /\ NoCallsInFlight
  /\ last = [op |-> "init", failedAt |-> <<>>]

\* how many of the remembered failed logins lie in the 15 minutes before t
FailedInWindow(failedAt, t) ==
  Cardinality({ i \in 1..Len(failedAt) :
                  t - failedAt[i] <= RATE_LIMIT_CONFIG.AUTH.windowMs })

\* the times of the most recent failed logins, with one at time t added
WithFailure(failedAt, t) ==
  IF Len(failedAt) < MaxFailedKept THEN Append(failedAt, t)
  ELSE Append(Tail(failedAt), t)

LoginTick ==
  /\ now + AuthTickStep <= MaxAuthTime
  /\ now' = now + AuthTickStep
  /\ last' = [op |-> "tick", failedAt |-> last.failedAt]
  /\ UNCHANGED <<store, authVars, classes, recordVars, calls>>

\* login(email, password) from LoginScreen; a login that threw is a failed one
LoginAttempt(email, password) ==
  LET r == login(store, users, user, email, password, now) IN
  /\ store' = r.store
  /\ users' = r.users
  /\ user' = r.user
  /\ last' = [op |-> "login", email |-> email, password |-> password, at |-> now,
              failedBefore |-> FailedInWindow(last.failedAt, now),
              failedAt |-> IF r.out.threw THEN WithFailure(last.failedAt, now)
                           ELSE last.failedAt,
              out |-> r.out]
  /\ UNCHANGED <<now, uuids, classes, recordVars, calls>>

NextLogin ==
  \/ LoginTick
  \/ \E email \in Emails, password \in Passwords : LoginAttempt(email, password)

SpecLogin == InitLogin /\ [][NextLogin]_vars

\* the last call was a login with the account's password, the account being
\* verified and not exempt from rate limiting
CorrectLogin ==
  /\ last.op = "login"
  /\ getUserByEmail(users, last.email).found
  /\ verifyPassword(last.password, getUserByEmail(users, last.email).row.passwordHash)
  /\ getUserByEmail(users, last.email).row.emailVerified = 1
  /\ ~IsWhitelisted(ToLowerCase(last.email))

\* the login went through: a session, and no AUTH entry left
LoggedIn ==
  /\ ~last.out.threw
  /\ user.present
  /\ ~Stored(store, ToLowerCase(last.email), "AUTH").found

\* C26: login lockout happens only after maxAttempts (5) failed logins: a login
\* with the correct password for a verified, non-exempt account succeeds
\* whenever fewer than 5 failed logins for that e-mail precede it in the
\* current 15-minute window, and a successful login deletes the AUTH entry
C26_LoginSucceedsBelowFive ==
  (CorrectLogin /\ last.failedBefore < RATE_LIMIT_CONFIG.AUTH.maxAttempts) => LoggedIn

\* what the code gives: a login gets in only with the account's password, and
\* every login that got in left a session and no AUTH entry
C26_SuccessfulLoginClearsEntry ==
  (last.op = "login" /\ ~last.out.threw) => (CorrectLogin /\ LoggedIn)

-----------------------------------------------------------------------------
(* Claims about token requests that are refused, under SpecPin *)

\* the last call was a token request the rate limiter denied
RequestDenied ==
  /\ TokenRequests
  /\ last.out.threw
  /\ last.out.message.text \in { "Too many attempts. Please try again in",
                                 "Too many attempts. Please try again later." }

\* the last call was a token request for an address without an account
RequestForUnknown ==
  /\ TokenRequests
  /\ ~last.before.found

\* C27: when the EMAIL-class rate limiter denies resendVerificationEmail or
\* requestPasswordReset, no token is generated: the account's row, with both
\* tokens and expiries, is as before and no e-mail is handed to the sender; a
\* request for an unknown account stores no token and sends nothing either
C27_RefusedRequestIssuesNothing ==
  /\ RequestDenied => (last.sent = NULL /\ AccountNow = last.before)
  /\ RequestForUnknown => (last.sent = NULL /\ ~AccountNow.found)

\* a password reset request was denied while the account held a reset token
C27_Witness ==
  /\ RequestDenied
  /\ last.op = "requestPasswordReset"
  /\ last.before.found
  /\ last.before.row.passwordResetToken # NULL

\* a request was made before any account existed
C27_WitnessUnknown ==
  /\ RequestForUnknown
  /\ ~RequestDenied

-----------------------------------------------------------------------------
(* Claims about the one pending token of a purpose, under SpecPin *)

\* the last call was a request that generated a token
TokenIssued ==
  /\ TokenRequests
  /\ last.sent # NULL

\* the last call was a verification that did not accept its PIN
NotVerified ==
  /\ last.op \in Verifications
  /\ last.before.found
  /\ ~Accepted

\* the purposes of the calls: the e-mail verification token or the reset token
Purpose(op) ==
  IF op \in {"verifyEmailToken", "resendVerificationEmail", "signup"}
    THEN "emailVerification" ELSE "passwordReset"

\* the last call submitted the token that the request just before it replaced
SubmittedReplaced ==
  /\ last.op \in Verifications
  /\ ~last.prev.accepted
  /\ "replaced" \in DOMAIN last.prev
  /\ Purpose(last.prev.op) = Purpose(last.op)
  /\ last.prev.email = last.email
  /\ last.prev.replaced # NULL
  /\ last.prev.replaced = last.pin
  /\ last.before.found
  /\ StoredToken(last.before.row, last.op) # last.pin

\* C28: a request that generates a token leaves it as the one stored token of
\* its purpose, with the expiry at the request time plus 10 minutes; a
\* verification that submits anything but the stored token, the replaced
\* token included, is not accepted; a verification that is not accepted
\* leaves the stored token and its expiry as they were
C28_OnePendingToken ==
  /\ TokenIssued =>
       /\ AccountNow.found
       /\ StoredToken(AccountNow.row, last.op) = last.sent
       /\ StoredExpiry(AccountNow.row, last.op) = last.at + 10
  /\ (/\ last.op \in Verifications
      /\ last.before.found
      /\ StoredToken(last.before.row, last.op) # last.pin) => ~Accepted
  /\ SubmittedReplaced => ~Accepted
  /\ NotVerified =>
       /\ AccountNow.found
       /\ StoredToken(AccountNow.row, last.op) = StoredToken(last.before.row, last.op)
       /\ StoredExpiry(AccountNow.row, last.op) = StoredExpiry(last.before.row, last.op)

\* the reset token replaced by a new request was submitted and not accepted
C28_Witness ==
  /\ SubmittedReplaced
  /\ last.op = "resetPassword"
  /\ Rejected
  /\ AccountNow.row.passwordResetToken # NULL

\* the stored token was submitted after its expiry and is still stored
C28_WitnessExpired ==
  /\ SubmittedExpired
  /\ NotVerified
  /\ StoredToken(AccountNow.row, last.op) = last.pin

\* a request replaced a token that was still pending by a different one
C28_WitnessOverwritten ==
  /\ TokenIssued
  /\ last.before.found
  /\ StoredToken(last.before.row, last.op) \notin {NULL, last.sent}

-----------------------------------------------------------------------------
(* The session: every handler of AuthProvider, and the app started again *)

SessionPasswords == { <<"p">>, <<"q">> }
SessionPins == { <<"1">> }

\* SecureStore holds a session
HasStoredSession == CurrentUserKey \in DOMAIN store

\* the app is closed and opened: a new AuthProvider, whose useEffect runs
\* loadStoredUser
AppRestarted ==
  /\ user' = loadStoredUser(store)
  /\ last' = [op |-> "loadStoredUser", email |-> <<>>, at |-> now,
              stored |-> HasStoredSession]
  /\ UNCHANGED <<now, store, users, uuids, classes, recordVars, calls>>

NextSession ==
  \/ Tick(AuthTickStep, MaxAuthTime)
  \/ \E email \in Emails, pin \in SessionPins :
       Signup(email, <<"p">>, pin)
  \/ \E email \in Emails, password \in SessionPasswords : Login(email, password)
  \/ Logout
  \/ DeleteAccount
  \/ AppRestarted
  \/ \E email \in Emails, pin \in SessionPins : VerifyEmailToken(email, pin)
  \/ \E email \in Emails, pin \in SessionPins :
       RequestPasswordReset(email, pin, TRUE)
  \/ \E email \in Emails, pin \in SessionPins : VerifyPasswordResetPinCode(email, pin)
  \/ \E email \in Emails, pin \in SessionPins :
       ResetPassword(email, pin, <<"p">>)

SpecSession == InitAuth /\ [][NextSession]_vars

\* a session exists: in the provider's state or kept in SecureStore
SessionEstablished == user.present \/ HasStoredSession

\* the step is a login that the rate limiter allows, with the password of an
\* account whose e-mail address is verified
LoginPassedAllChecks ==
  /\ last'.op = "login"
  /\ checkRateLimit(store, ToLowerCase(last'.email), "AUTH", now,
                    TRUE, TRUE).result.allowed
  /\ getUserByEmail(users, last'.email).found
  /\ verifyPassword(last'.password, getUserByEmail(users, last'.email).row.passwordHash)
  /\ getUserByEmail(users, last'.email).row.emailVerified = 1

\* C29: the provider's session is always the one kept in SecureStore, and a
\* step that establishes a session where there was none is a login that the
\* rate limiter allowed, whose password matched the stored hash and whose
\* account has emailVerified set; signup and the PIN verifications leave the
\* session as it was
C29_SessionOnlyByLogin ==
  /\ [](user = loadStoredUser(store))
  /\ [][(~SessionEstablished /\ SessionEstablished') => LoginPassedAllChecks]_vars
  /\ [][last'.op \in Verifications \cup {"signup"} => user' = user]_vars

\* a login established a session
C29_Witness ==
  /\ last.op = "login"
  /\ ~last.out.threw
  /\ last.before.found
  /\ last.before.row.emailVerified = 1
  /\ user.present
  /\ user.email = last.before.row.email

\* a signup and an accepted verification have left no session
C29_WitnessNoSession ==
  /\ last.op = "verifyEmailToken"
  /\ Accepted
  /\ ~SessionEstablished

\* the app was started again with a session kept in SecureStore
C29_WitnessRestored ==
  /\ last.op = "loadStoredUser"
  /\ last.stored
  /\ user.present

-----------------------------------------------------------------------------
(* checkRateLimit and resetRateLimit of two classes for one identifier,
   overlapping *)

\* the two classes of the calls the verification screen makes
RaceClasses == {"PIN_VERIFICATION", "EMAIL"}

InitRaceReset ==
  /\ now = 0
  /\ store = [k \in {} |-> {}]
  /\ users = NoUsers
  /\ user = NoSession
  /\ uuids = 0
  /\ classes = RaceClasses
  /\ RecordsUntouched
  /\ NoCallsInFlight
  /\ last = [op |-> "init"]

\* resetRateLimit has one await, the delete: it is one step
ResetEntry(p, type) ==
  /\ calls[p].pc = "idle"
  /\ store' = resetRateLimit(store, RaceIdentifier, type, TRUE).store
  /\ last' = [op |-> "reset", caller |-> p, type |-> type]
  /\ UNCHANGED <<now, authVars, classes, recordVars, calls>>

NextRaceReset ==
  \/ RaceTick
  \/ \E p \in Callers, type \in classes : LoadEntry(p, type)
  \/ \E p \in Callers : PersistEntry(p)
  \/ \E p \in Callers : CallAgain(p)
  \/ \E p \in Callers, type \in classes : ResetEntry(p, type)

SpecRaceReset == InitRaceReset /\ [][NextRaceReset]_vars

\* the entry stored for a class is well formed
WellFormed(type) ==
  LET s == Stored(store, RaceIdentifier, type) IN
  s.found =>
    /\ s.entry.attempts >= 1
    /\ s.entry.attempts <= RATE_LIMIT_CONFIG[type].maxAttempts
    /\ ("lockedUntil" \in DOMAIN s.entry) <=>
         (s.entry.attempts = RATE_LIMIT_CONFIG[type].maxAttempts)

\* every item of the store is the entry of a class
OnlyEntries ==
  DOMAIN store \subseteq { StorageKey(RateLimitKey(RaceIdentifier, type)) : type \in Types }

\* the class whose entry the step may write
ClassOfStep ==
  IF last'.op = "persist" THEN calls[last'.caller].type
  ELSE IF last'.op = "reset" THEN last'.type
  ELSE "none"

\* a step leaves the entries of all classes but its own as they were
OtherClassesKept ==
  \A type \in Types \ {ClassOfStep} :
    Stored(store', RaceIdentifier, type) = Stored(store, RaceIdentifier, type)

\* C30: whatever the interleaving of checkRateLimit and resetRateLimit calls,
\* every stored entry has attempts between 1 and the maxAttempts of its class
\* and has lockedUntil exactly when attempts = maxAttempts; a call of one
\* class leaves the entry of every other class of the identifier unchanged
C30_EntriesWellFormed ==
  /\ [](OnlyEntries /\ \A type \in Types : WellFormed(type))
  /\ [][OtherClassesKept]_vars

\* two classes have entries, one of them locked, while a call is in flight
C30_Witness ==
  /\ \E type \in classes :
       /\ Stored(store, RaceIdentifier, type).found
       /\ "lockedUntil" \in DOMAIN Stored(store, RaceIdentifier, type).entry
  /\ \A type \in classes : Stored(store, RaceIdentifier, type).found
  /\ \E p \in Callers : calls[p].pc = "loaded"

\* a reset removed the entry that a checkRateLimit call in flight had read
C30_WitnessResetBetween ==
  /\ last.op = "reset"
  /\ ~Stored(store, RaceIdentifier, last.type).found
  /\ \E q \in Callers \ {last.caller} :
       /\ calls[q].pc = "loaded"
       /\ calls[q].type = last.type
       /\ calls[q].got.found
  /\ \E type \in classes \ {last.type} : Stored(store, RaceIdentifier, type).found

====
